---- MODULE Spec2Model ----
(***************************************************************************)
(* A model of the JobScraper aggregation engine: the run orchestrator      *)
(* (scraper/engine.py), the batch deduplicator (scraper/dedup.py), the     *)
(* normalized job record and UK filter (scraper/sources/base.py), the      *)
(* storage tables (models.py) and the source adapters.                     *)
(*                                                                         *)
(* Text values are modelled by what the code inspects of them:             *)
(*   a text is [words, deco, pad]: its lower-case alphanumeric words, in   *)
(*   order; whether it carries upper-case letters or punctuation; whether  *)
(*   it carries leading or trailing whitespace.                            *)
(*   a URL is [base, slash, query, caps, pad]: scheme, host and path       *)
(*   without trailing slashes; whether the path ends with a slash; the     *)
(*   query parameters in order; upper-case letters; surrounding blanks.    *)
(* SHA-256 is taken to be collision free: url_hash is the canonical form.  *)
(***************************************************************************)
EXTENDS Integers, Sequences, FiniteSets, TLC

\* ------------------------------------------------------------------ bounds
MaxRuns == 3
MaxDate == 3
MaxFaults == 2

Dates == 1..MaxDate

\* ------------------------------------------------------------------ texts
Text(ws) == [words |-> ws, deco |-> FALSE, pad |-> FALSE]

EmptyText == Text(<<>>)

\* Python truthiness of a str: the string is not empty.
Truthy(t) == t.words # <<>> \/ t.deco \/ t.pad

\* str.strip()
strip(t) == [t EXCEPT !.pad = FALSE]

Url(b) == [base |-> b, slash |-> FALSE, query |-> <<>>, caps |-> FALSE, pad |-> FALSE]

EmptyUrl == Url("")

UrlTruthy(u) == u.base # "" \/ u.slash \/ u.query # <<>> \/ u.pad

urlstrip(u) == [u EXCEPT !.pad = FALSE]

\* ------------------------------------------------------------------ dedup.py
_TRACKING_PARAMS ==
    {"utm_source", "utm_medium", "utm_campaign", "utm_content", "utm_term",
     "ref", "source", "fbclid", "gclid", "mc_cid", "mc_eid"}

\* parse_qs drops parameters with a blank value and groups the values of one
\* key at the key's first position; urlencode(doseq=True) writes them back in
\* that order.
RECURSIVE GroupByKey(_)
GroupByKey(q) ==
    IF q = <<>> THEN <<>>
    ELSE LET k == Head(q).k
         IN  SelectSeq(q, LAMBDA p : p.k = k)
             \o GroupByKey(SelectSeq(Tail(q), LAMBDA p : p.k # k))

parse_qs(q) == GroupByKey(SelectSeq(q, LAMBDA p : p.v # ""))

canonicalize_url(u) ==
    [base  |-> u.base,
     slash |-> FALSE,
     query |-> SelectSeq(parse_qs(u.query), LAMBDA p : p.k \notin _TRACKING_PARAMS),
     caps  |-> FALSE,
     pad   |-> FALSE]

url_hash(u) == canonicalize_url(u)

normalize_text(t) == t.words

Signature(job) == <<normalize_text(job.title), normalize_text(job.company)>>

\* is_similar_job: the same URL identity, or the same normalized title and company
is_similar_job(job1, job2) ==
    IF url_hash(job1.url) = url_hash(job2.url) THEN TRUE
    ELSE /\ normalize_text(job1.title) = normalize_text(job2.title)
         /\ normalize_text(job1.company) = normalize_text(job2.company)

\* a slip: `duplicate_count += 1` stands outside the tests, every record counts
RECURSIVE DedupFrom_countall(_, _, _, _)
DedupFrom_countall(jobs, i, seen_hashes, seen_signatures) ==
    IF i > Len(jobs) THEN [unique |-> <<>>, dupes |-> 0]
    ELSE LET job == jobs[i]
             h   == url_hash(job.url)
             sig == Signature(job)
         IN  IF h \in seen_hashes \/ sig \in seen_signatures
             THEN LET r == DedupFrom_countall(jobs, i + 1, seen_hashes, seen_signatures)
                  IN  [unique |-> r.unique, dupes |-> r.dupes + 1]
             ELSE LET r == DedupFrom_countall(jobs, i + 1, seen_hashes \cup {h},
                                              seen_signatures \cup {sig})
                  IN  [unique |-> <<job>> \o r.unique, dupes |-> r.dupes + 1]

\* a slip: the signature is never looked up
RECURSIVE DedupFrom_hashonly(_, _, _, _)
DedupFrom_hashonly(jobs, i, seen_hashes, seen_signatures) ==
    IF i > Len(jobs) THEN [unique |-> <<>>, dupes |-> 0]
    ELSE LET job == jobs[i]
             h   == url_hash(job.url)
         IN  IF h \in seen_hashes
             THEN LET r == DedupFrom_hashonly(jobs, i + 1, seen_hashes, seen_signatures)
                  IN  [unique |-> r.unique, dupes |-> r.dupes + 1]
             ELSE LET r == DedupFrom_hashonly(jobs, i + 1, seen_hashes \cup {h},
                                              seen_signatures)
                  IN  [unique |-> <<job>> \o r.unique, dupes |-> r.dupes]

\* a slip: a kept record is put in front of the list
RECURSIVE DedupFrom_prepend(_, _, _, _)
DedupFrom_prepend(jobs, i, seen_hashes, seen_signatures) ==
    IF i > Len(jobs) THEN [unique |-> <<>>, dupes |-> 0]
    ELSE LET job == jobs[i]
             h   == url_hash(job.url)
             sig == Signature(job)
         IN  IF h \in seen_hashes \/ sig \in seen_signatures
             THEN LET r == DedupFrom_prepend(jobs, i + 1, seen_hashes, seen_signatures)
                  IN  [unique |-> r.unique, dupes |-> r.dupes + 1]
             ELSE LET r == DedupFrom_prepend(jobs, i + 1, seen_hashes \cup {h},
                                             seen_signatures \cup {sig})
                  IN  [unique |-> r.unique \o <<job>>, dupes |-> r.dupes]

\* The loop of deduplicate_jobs over jobs[i..], with the sets seen so far.
RECURSIVE DedupFrom(_, _, _, _)
DedupFrom(jobs, i, seen_hashes, seen_signatures) ==
    IF i > Len(jobs) THEN [unique |-> <<>>, dupes |-> 0]
    ELSE LET job == jobs[i]
             h   == url_hash(job.url)
             sig == Signature(job)
         IN  IF h \in seen_hashes \/ sig \in seen_signatures
             THEN LET r == DedupFrom(jobs, i + 1, seen_hashes, seen_signatures)
                  IN  [unique |-> r.unique, dupes |-> r.dupes + 1]
             ELSE LET r == DedupFrom(jobs, i + 1, seen_hashes \cup {h},
                                     seen_signatures \cup {sig})
                  IN  [unique |-> <<job>> \o r.unique, dupes |-> r.dupes]

deduplicate_jobs(jobs) == DedupFrom(jobs, 1, {}, {})

\* ------------------------------------------------------------------ base.py
JobData(title, company, location, url, source) ==
    [title    |-> IF Truthy(title) THEN strip(title) ELSE EmptyText,
     company  |-> IF Truthy(company) THEN strip(company) ELSE EmptyText,
     location |-> IF Truthy(location) THEN strip(location) ELSE EmptyText,
     url      |-> IF UrlTruthy(url) THEN urlstrip(url) ELSE EmptyUrl,
     source   |-> source]

is_valid(job) ==
    /\ Truthy(job.title)
    /\ Truthy(job.company)
    /\ Truthy(job.location)
    /\ UrlTruthy(job.url)

\* The words of a location are its lower-case words and, between them, its
\* separators: "," stands for ", ", "-" for " - ", "/" for "/", and two words
\* with no separator between them are one blank apart.
\*
\* The words of the modelled vocabulary that hold a shorter word of the lists
\* inside them (substring match): word |-> the words found inside it, the
\* words it ends with, the words it begins with.
Inside(w) ==
    CASE w = "kentucky"  -> {"kent"}
      [] w = "yorkshire" -> {"york"}
      [] w = "ukraine"   -> {"uk"}
      [] OTHER           -> {}

Endings(w) ==
    CASE w = "campus" -> {"us"}
      [] OTHER        -> {}

Beginnings(w) ==
    CASE w = "westminster" -> {"west"}
      [] w = "ukraine"     -> {"uk"}
      [] OTHER             -> {}

Parts(w) == {w} \cup Inside(w)

\* phrase occurs in the words ws as consecutive whole words
HasPhrase(ws, phrase) ==
    \E i \in 1..Len(ws) :
        /\ i + Len(phrase) - 1 <= Len(ws)
        /\ \A k \in 1..Len(phrase) : ws[i + k - 1] = phrase[k]

\* a list entry occurs in the text as a substring: a one-word entry inside a
\* word, a longer entry from the end of a word to the beginning of a word
ContainsEntry(ws, entry) ==
    IF Len(entry) = 1
    THEN \E i \in 1..Len(ws) : entry[1] \in Parts(ws[i])
    ELSE \E i \in 1..Len(ws) :
            /\ i + Len(entry) - 1 <= Len(ws)
            /\ entry[1] \in {ws[i]} \cup Endings(ws[i])
            /\ \A k \in 2..(Len(entry) - 1) : ws[i + k - 1] = entry[k]
            /\ entry[Len(entry)] \in {ws[i + Len(entry) - 1]}
                                     \cup Beginnings(ws[i + Len(entry) - 1])

non_uk_indicators ==
    {<<"usa", "only">>, <<"us", "only">>, <<"united", "states", "only">>,
     <<"canada", "only">>, <<"australia", "only">>}

uk_places ==
    {<<"united", "kingdom">>, <<"england">>, <<"scotland">>, <<"wales">>,
     <<"northern", "ireland">>, <<"london">>, <<"manchester">>, <<"birmingham">>,
     <<"leeds">>, <<"glasgow">>, <<"liverpool">>, <<"edinburgh">>, <<"bristol">>,
     <<"sheffield">>, <<"newcastle">>, <<"nottingham">>, <<"southampton">>,
     <<"cardiff">>, <<"belfast">>, <<"leicester">>, <<"coventry">>,
     <<"cambridge">>, <<"oxford">>, <<"brighton">>, <<"york">>, <<"aberdeen">>,
     <<"dundee">>, <<"exeter">>, <<"norwich">>, <<"plymouth">>, <<"derby">>,
     <<"swansea">>, <<"portsmouth">>, <<"wolverhampton">>,
     <<"warwick">>, <<"surrey">>, <<"essex">>, <<"kent">>, <<"sussex">>,
     <<"hampshire">>, <<"hertfordshire">>, <<"berkshire">>, <<"middlesex">>,
     <<"staffordshire">>, <<"lancashire">>, <<"cheshire">>, <<"somerset">>,
     <<"dorset">>, <<"devon">>, <<"cornwall">>, <<"wiltshire">>, <<"norfolk">>,
     <<"suffolk">>, <<"cambridgeshire">>, <<"oxfordshire">>, <<"buckinghamshire">>,
     <<"greater", "london">>, <<"west", "midlands">>, <<"east", "midlands">>,
     <<"north", "west">>, <<"north", "east">>, <<"south", "west">>,
     <<"south", "east">>, <<"east", "anglia">>, <<"yorkshire">>,
     <<"great", "britain">>,
     <<"remote", ",", "uk">>, <<"remote", "-", "uk">>, <<"hybrid", "-", "uk">>}

short_codes == {"uk", "gb"}

global_exact ==
    {<<"worldwide">>, <<"global">>, <<"anywhere">>, <<"international">>,
     <<"europe">>, <<"emea">>, <<"remote">>, <<"hybrid">>, <<"remote", "/", "hybrid">>}

\* a slip: the place names are looked for before the exclusions
is_uk_based_placesfirst(job) ==
    LET ws == job.location.words
    IN  IF \E p \in uk_places : ContainsEntry(ws, p) THEN TRUE
        ELSE IF \E ind \in non_uk_indicators : ContainsEntry(ws, ind) THEN FALSE
        ELSE IF \E i \in 1..Len(ws) : ws[i] \in short_codes THEN TRUE
        ELSE IF \E t \in global_exact : HasPhrase(ws, t) THEN TRUE
        ELSE FALSE

is_uk_based(job) ==
    LET ws == job.location.words
    IN  IF \E ind \in non_uk_indicators : ContainsEntry(ws, ind) THEN FALSE
        ELSE IF \E p \in uk_places : ContainsEntry(ws, p) THEN TRUE
        ELSE IF \E i \in 1..Len(ws) : ws[i] \in short_codes THEN TRUE
        ELSE IF \E t \in global_exact : HasPhrase(ws, t) THEN TRUE
        ELSE FALSE

\* ------------------------------------------------------------------ upstream
\* What an upstream hands an adapter: items of raw fields, before JobData trims
\* them. A response is the items returned, or a call that raises.
Ok(items) == [raise |-> FALSE, items |-> items]

Raise == [raise |-> TRUE, items |-> <<>>]

Item(title, company, location, url) ==
    [title |-> title, company |-> company, location |-> location, url |-> url]

Deco(t) == [t EXCEPT !.deco = TRUE]

Pad(t) == [t EXCEPT !.pad = TRUE]

\* A listing, the same listing behind a tracking link, a mirror of it on another
\* board, a second listing (its link carries a referrer), a listing abroad, and
\* two postings of an applicant tracking system, one with a blank title and one
\* with no location name.
ItemA == Item(Text(<<"dev">>), Text(<<"acme">>), Text(<<"london">>), Url("a"))

ItemA2 ==
    Item(Deco(Text(<<"dev">>)), Text(<<"acme">>), Text(<<"london", "uk">>),
         [Url("a") EXCEPT !.slash = TRUE, !.caps = TRUE,
                          !.query = <<[k |-> "utm_source", v |-> "x"]>>])

ItemB == Item(Deco(Text(<<"dev">>)), Deco(Text(<<"acme">>)), Text(<<"remote">>), Url("b"))

ItemC ==
    Item(Text(<<"ops">>), Text(<<"acme">>), Text(<<"leeds">>),
         [Url("c") EXCEPT !.query = <<[k |-> "ref", v |-> "x"]>>])

ItemN == Item(Text(<<"qa">>), Text(<<"acme">>), Text(<<"paris">>), Url("n"))

ItemX == Item(Pad(Text(<<>>)), Text(<<"acme">>), Text(<<"london">>), Url("x"))

ItemY == Item(Text(<<"sre">>), Text(<<"acme">>), Text(<<>>), Url("y"))

\* another listing behind the link of the mirror
ItemD == Item(Text(<<"ops">>), Text(<<"acme">>), Text(<<"leeds">>), Url("b"))

\* What one HTTP request of an adapter meets.  status: "timeout" (requests raises
\* a RequestException), "error" (the HTTP layer raises anything else) or the
\* status code; retry: the same for the request repeated after a 202; body:
\* "fine", "notjson" (unparseable) or "shape" (parseable, but not the container
\* the adapter expects); entries: the listings of the body, each well-formed or
\* not; more: whether the upstream reports results beyond this page.
Response(status, retry, body, entries, more) ==
    [status |-> status, retry |-> retry, body |-> body, entries |-> entries,
     more |-> more]

NoResponse == Response("none", "none", "fine", <<>>, FALSE)

Entry(item) == [bad |-> FALSE, item |-> item]

\* a listing whose fields have not the types the adapter navigates
BadEntry == [bad |-> TRUE, item |-> ItemN]

Listing(entries, more) == Response("200", "none", "fine", entries, more)

Failing(status) == Response(status, "none", "fine", <<>>, FALSE)

Unparsable(body) == Response("200", "none", body, <<>>, FALSE)

Retried(retry, entries) == Response("202", retry, "fine", entries, FALSE)

AdzunaResponses ==
    {Failing("timeout"), Failing("500"), Unparsable("notjson"), Unparsable("shape"),
     Listing(<<>>, FALSE), Listing(<<Entry(ItemA)>>, TRUE),
     Listing(<<Entry(ItemC)>>, FALSE),
     Listing(<<Entry(ItemA), BadEntry, Entry(ItemC)>>, TRUE),
     Listing(<<Entry(ItemX), Entry(ItemC)>>, TRUE)}

GoogleResponses ==
    {Failing("timeout"), Failing("error"), Failing("500"), Retried("timeout", <<>>),
     Retried("202", <<>>), Retried("200", <<Entry(ItemC)>>), Unparsable("notjson"),
     Listing(<<Entry(ItemA)>>, FALSE),
     Listing(<<Entry(ItemA), Entry(ItemX), Entry(ItemC)>>, FALSE)}

DevitjobsResponses ==
    {Failing("timeout"), Failing("500"), Unparsable("notjson"), Unparsable("shape"),
     Listing(<<>>, FALSE), Listing(<<Entry(ItemA), BadEntry, Entry(ItemC)>>, FALSE),
     Listing(<<Entry(ItemX), Entry(ItemA)>>, FALSE)}

\* ------------------------------------------------------------------ adapters
\* a slip: The Muse is asked before DevITjobs
sources_themusefirst ==
    <<"themuse", "devitjobs", "google_search", "jobicy", "workingnomads",
      "remotive", "adzuna", "reed">>

\* engine.py: self.sources, in order
sources ==
    <<"devitjobs", "themuse", "google_search", "jobicy", "workingnomads",
      "remotive", "adzuna", "reed">>

SourceNames == {sources[k] : k \in 1..Len(sources)}

\* a slip: the app id alone makes Adzuna available
is_available_idonly(src, config) ==
    CASE src = "adzuna" -> config.ADZUNA_APP_ID
      [] src = "reed"   -> config.REED_API_KEY
      [] OTHER          -> TRUE

is_available(src, config) ==
    CASE src = "adzuna" -> config.ADZUNA_APP_ID /\ config.ADZUNA_API_KEY
      [] src = "reed"   -> config.REED_API_KEY
      [] OTHER          -> TRUE

\* The location an adapter gives a record: the upstream's, or the adapter's
\* default for a missing one.
LocationOf(src, item) ==
    CASE src = "devitjobs" ->
            [words |-> IF Truthy(strip(item.location))
                       THEN strip(item.location).words \o <<",", "uk">>
                       ELSE <<"uk">>,
             deco |-> TRUE, pad |-> FALSE]
      [] src \in {"jobicy", "workingnomads"} ->
            IF Truthy(item.location) THEN strip(item.location) ELSE Text(<<"remote">>)
      [] src = "remotive" ->
            IF Truthy(item.location) THEN item.location ELSE Text(<<"remote">>)
      [] src \in {"google_search", "themuse"} ->
            IF Truthy(item.location) THEN item.location
            ELSE Text(<<"united", "kingdom">>)
      [] OTHER -> item.location

\* scrape() of an API or search adapter on the items its upstream returns: every
\* record is built by JobData and kept only if is_valid().
RECURSIVE SourceScrape(_, _)
SourceScrape(src, items) ==
    IF items = <<>> THEN <<>>
    ELSE LET it  == Head(items)
             job == JobData(it.title, it.company, LocationOf(src, it), it.url, src)
         IN  (IF is_valid(job) THEN <<job>> ELSE <<>>) \o SourceScrape(src, Tail(items))

\* CareerPageSource._scrape_greenhouse: a posting is kept when its raw title and
\* URL are non-empty; the company is the target company's name.
_scrape_greenhouse(company, items) ==
    LET kept == SelectSeq(items, LAMBDA it : Truthy(it.title) /\ UrlTruthy(it.url))
    IN  [k \in 1..Len(kept) |->
            JobData(kept[k].title, company, kept[k].location, kept[k].url,
                    "career_page")]

MAX_JOBS_PER_COMPANY == 100

\* what is behind a career URL: the postings of a recognised board's API
\* (path "api"), or a page of HTML (path "html") with its anchors that look
\* like job links and the cards of the first selector that matches any
Page(path, items, cards) ==
    [raise |-> FALSE, path |-> path, items |-> items, cards |-> cards]

\* CareerPageSource._parse_html_for_jobs (strategy 1) and _parse_job_cards
\* (`for card in cards`): a link is taken once, when it has a title
TakeLinks(company, items) ==
    LET Titled(k) == Truthy(strip(items[k].title))
        Taken(k)  == /\ Titled(k)
                     /\ ~\E j \in 1..(k - 1) : Titled(j) /\ items[j].url = items[k].url
        kept      == SelectSeq([k \in 1..Len(items) |-> k], Taken)
    IN  [n \in 1..Len(kept) |->
            LET it == items[kept[n]]
            IN  JobData(it.title, company,
                        IF Truthy(strip(it.location)) THEN it.location
                        ELSE Text(<<"united", "kingdom">>),
                        it.url, "career_page")]

\* CareerPageSource._parse_html_for_jobs: the job links, and the cards when
\* there is no job link; fewer than two cards are not a list
_parse_html_for_jobs(company, page) ==
    LET jobs == TakeLinks(company, page.items)
    IN  IF jobs # <<>> THEN jobs
        ELSE IF Len(page.cards) < 2 THEN <<>>
        ELSE TakeLinks(company, page.cards)

\* the first n of a list
FirstN(list, n) == SubSeq(list, 1, IF Len(list) < n THEN Len(list) ELSE n)

\* a slip: the cap is applied to the answer of a board's API only
_scrape_one_apicap(company, page) ==
    IF page.path = "api"
    THEN FirstN(_scrape_greenhouse(company, page.items), MAX_JOBS_PER_COMPANY)
    ELSE _parse_html_for_jobs(company, page)

\* CareerPageSource._scrape_one: the platform's API when the URL is one of a
\* recognised board, the HTML of the page otherwise
_scrape_one(company, page) ==
    IF page.path = "api"
    THEN FirstN(_scrape_greenhouse(company, page.items), MAX_JOBS_PER_COMPANY)
    ELSE FirstN(_parse_html_for_jobs(company, page), MAX_JOBS_PER_COMPANY)

\* CareerPageSource.scrape_career_pages over the companies with a career URL;
\* pages[url] is what is behind that URL, or a failure while scraping that
\* one company.
RECURSIVE scrape_career_pages(_, _)
scrape_career_pages(company_urls, pages) ==
    IF company_urls = <<>> THEN <<>>
    ELSE LET entry == Head(company_urls)
             page  == pages[entry.career_url]
         IN  (IF page.raise THEN <<>> ELSE _scrape_one(entry.name, page))
             \o scrape_career_pages(Tail(company_urls), pages)

\* ------------------------------------------------------------------ scrape()
\* how many of the caller's queries (target companies, then general queries) a
\* call of scrape() is given at most
MaxQueries == 2

\* config.py: MAX_PAGES_PER_SOURCE, the pages AdzunaSource._search asks for
MAX_PAGES_PER_SOURCE == 2

\* google_search.py: the queries _build_queries adds of its own, the cap on the
\* queries issued and the consecutive failures that end the loop
EXTRA_QUERIES == 10

MAX_QUERIES == 70

FAILURE_LIMIT == 5

\* themuse.py: the entries of UK_LOCATIONS
UK_LOCATIONS == 3

\* a slip: the web search goes through every query it has built
QueriesOf_uncapped(a, n) ==
    CASE a \in {"adzuna", "reed"} -> n
      [] a = "google_search"      -> n + EXTRA_QUERIES
      [] a = "themuse"            -> UK_LOCATIONS
      [] OTHER                    -> 1

\* the queries the loop of scrape() goes through, given n queries by the caller
QueriesOf(a, n) ==
    CASE a \in {"adzuna", "reed"} -> n
      [] a = "google_search" -> IF n + EXTRA_QUERIES < MAX_QUERIES
                                THEN n + EXTRA_QUERIES ELSE MAX_QUERIES
      [] a = "themuse"       -> UK_LOCATIONS
      [] OTHER               -> 1

Malformed(entries) == \E k \in 1..Len(entries) : entries[k].bad

\* the listings ahead of the first malformed one
RECURSIVE Before(_)
Before(entries) ==
    IF entries = <<>> \/ Head(entries).bad THEN <<>>
    ELSE <<Head(entries).item>> \o Before(Tail(entries))

\* the listings that parse
RECURSIVE WellFormed(_)
WellFormed(entries) ==
    IF entries = <<>> THEN <<>>
    ELSE (IF Head(entries).bad THEN <<>> ELSE <<Head(entries).item>>)
         \o WellFormed(Tail(entries))

\* a slip: the reported total is never compared with what was fetched
AdzunaPage_nototal(resp) ==
    IF resp.status # "200" \/ resp.body # "fine"
    THEN [jobs |-> <<>>, exc |-> TRUE, stop |-> TRUE]
    ELSE IF resp.entries = <<>>
    THEN [jobs |-> <<>>, exc |-> FALSE, stop |-> TRUE]
    ELSE [jobs |-> SourceScrape("adzuna", Before(resp.entries)),
          exc  |-> Malformed(resp.entries),
          stop |-> Malformed(resp.entries)]

\* AdzunaSource._search, one pass of `for page`: the records the pass appends,
\* whether it ends in the except clause, whether it leaves the loop.
AdzunaPage(resp) ==
    IF resp.status # "200" \/ resp.body # "fine"
    THEN [jobs |-> <<>>, exc |-> TRUE, stop |-> TRUE]
    ELSE IF resp.entries = <<>>
    THEN [jobs |-> <<>>, exc |-> FALSE, stop |-> TRUE]
    ELSE [jobs |-> SourceScrape("adzuna", Before(resp.entries)),
          exc  |-> Malformed(resp.entries),
          stop |-> Malformed(resp.entries) \/ ~resp.more]

\* GoogleSearchSource._search raises what is not a RequestException
SearchRaises(resp) ==
    resp.status = "error" \/ (resp.status = "202" /\ resp.retry = "error")

\* GoogleSearchSource._parse_results: an unreadable page has no result in it
\* and a result without its title link is skipped
_parse_results(resp) ==
    [none |-> FALSE,
     results |-> IF resp.body = "fine" THEN WellFormed(resp.entries) ELSE <<>>]

None == [none |-> TRUE, results |-> <<>>]

\* GoogleSearchSource._search: None for a request that fails, for a 202 that
\* is not a 200 when repeated once, and for any other status but 200
_search(resp) ==
    IF resp.status = "timeout" THEN None
    ELSE IF resp.status = "202"
    THEN (IF resp.retry = "200" THEN _parse_results(resp) ELSE None)
    ELSE IF resp.status # "200" THEN None
    ELSE _parse_results(resp)

\* GoogleSearchSource.scrape, `for r in results`
RECURSIVE TakeResults(_, _, _)
TakeResults(results, seen, acc) ==
    IF results = <<>> THEN [jobs |-> acc, seen_urls |-> seen]
    ELSE LET r   == Head(results)
             job == JobData(r.title, r.company, LocationOf("google_search", r),
                            r.url, "google_search")
         IN  IF r.url \in seen \/ ~is_valid(job)
             THEN TakeResults(Tail(results), seen, acc)
             ELSE TakeResults(Tail(results), seen \cup {r.url}, Append(acc, job))

\* ------------------------------------------------------------------ the world
\* Static configuration, the target_companies table and what every upstream
\* returns: fixed for one behaviour, the same for every run in it.
NoKeys == [ADZUNA_APP_ID |-> FALSE, ADZUNA_API_KEY |-> FALSE, REED_API_KEY |-> FALSE]

AllKeys == [ADZUNA_APP_ID |-> TRUE, ADZUNA_API_KEY |-> TRUE, REED_API_KEY |-> TRUE]

IdOnly == [ADZUNA_APP_ID |-> TRUE, ADZUNA_API_KEY |-> FALSE, REED_API_KEY |-> FALSE]

Company(name, career_url, active) ==
    [name |-> Text(<<name>>), career_url |-> career_url, active |-> active]

Quiet == [s \in SourceNames |-> Ok(<<>>)]

NoPages == [u \in {"board"} |-> Page("api", <<>>, <<>>)]

World(config, companies, resp, career_raise, pages) ==
    [config |-> config, companies |-> companies, resp |-> resp,
     career_raise |-> career_raise, pages |-> pages]

Plain == <<Company("acme", "", TRUE)>>

WithBoard == <<Company("acme", "board", TRUE), Company("globex", "", TRUE)>>

Worlds ==
    { \* two listings on one board
      World(NoKeys, Plain, [Quiet EXCEPT !["devitjobs"] = Ok(<<ItemA, ItemC>>)],
            FALSE, NoPages),
      \* a listing, its mirror on a second board and a listing abroad
      World(NoKeys, Plain,
            [Quiet EXCEPT !["devitjobs"] = Ok(<<ItemA>>),
                          !["themuse"] = Ok(<<ItemB, ItemN>>)],
            FALSE, NoPages),
      \* a listing, and the company board with its tracking link and a blank title
      World(NoKeys, WithBoard, [Quiet EXCEPT !["jobicy"] = Ok(<<ItemA>>)],
            FALSE, [NoPages EXCEPT !["board"] = Page("api", <<ItemA2, ItemX>>, <<>>)]),
      \* the company board with a blank location name
      World(NoKeys, WithBoard, Quiet,
            FALSE, [NoPages EXCEPT !["board"] = Page("api", <<ItemY, ItemC>>, <<>>)]),
      \* two adapters and one company page fail
      World(NoKeys, WithBoard,
            [Quiet EXCEPT !["devitjobs"] = Raise, !["themuse"] = Ok(<<ItemC>>),
                          !["remotive"] = Raise],
            FALSE, [NoPages EXCEPT !["board"] = Raise]),
      \* the career-page scrape raises
      World(NoKeys, WithBoard, [Quiet EXCEPT !["google_search"] = Ok(<<ItemA, ItemX>>)],
            TRUE, NoPages),
      \* the keyed APIs are configured
      World(AllKeys, Plain,
            [Quiet EXCEPT !["adzuna"] = Ok(<<ItemC, ItemN>>), !["reed"] = Raise],
            FALSE, NoPages),
      \* half a key pair, an inactive company with a board
      World(IdOnly, <<Company("acme", "board", FALSE)>>,
            [Quiet EXCEPT !["adzuna"] = Ok(<<ItemC>>), !["reed"] = Raise,
                          !["workingnomads"] = Ok(<<ItemN>>)],
            FALSE, [NoPages EXCEPT !["board"] = Page("api", <<ItemA>>, <<>>)]) }

\* ------------------------------------------------------------------ state
VARIABLES
    world,            \* configuration, target companies, upstream responses
    jobs,             \* the committed jobs table, in id order
    runs,             \* the committed scrape_runs table, in id order
    sview,            \* the jobs table as db.session sees it: committed rows
                      \* with the pending updates, then the pending new rows
    pc,               \* where run() stands
    target_date,
    companies,
    company_urls,
    all_jobs,
    failed_sources,
    srcIdx,           \* the position of `for source in self.sources`
    uk_jobs,
    unique_jobs,
    batch_dupes,
    new_count,
    cross_day_dupes,
    storeIdx,         \* the position of `for job_data in unique_jobs`
    result,           \* what run() returned, or that it raised
    faults,           \* errors raised so far by storage or the runtime
    jobs0             \* history: the committed jobs table when the run began

\* One call of an adapter's scrape(), taken on its own.
VARIABLES
    adapter,               \* the adapter whose scrape() is called
    apc,                   \* where scrape() stands
    queries,               \* how many queries the loop of scrape() goes through
    queryIdx,              \* the position of `for query in ...`
    page,                  \* the position of `for page in range(...)`
    scraped,               \* `jobs`, the list scrape() returns
    consecutive_failures,
    seen_urls,
    attempted,             \* history: the queries a request was issued for
    requests,              \* history: the requests issued
    upstream,              \* history: what the latest request met
    failed_in_a_row        \* history: the latest attempts that failed, with
                           \* no attempt that succeeded between them

call ==
    <<adapter, apc, queries, queryIdx, page, scraped, consecutive_failures, seen_urls,
      attempted, requests, upstream, failed_in_a_row>>

engine ==
    <<world, jobs, runs, sview, pc, target_date, companies, company_urls, all_jobs,
      failed_sources, srcIdx, uk_jobs, unique_jobs, batch_dupes, new_count,
      cross_day_dupes, storeIdx, result, faults, jobs0>>

\* One call of a function of dedup.py or base.py, taken on its own.
VARIABLES
    fn,                    \* the function called
    arg,                   \* its argument
    ret,                   \* what it returned
    again                  \* what deduplicate_jobs returned for its own output

pure == <<fn, arg, ret, again>>

\* Two runs at the same time, each in an application context and so with a
\* db.session of its own, over the committed tables `jobs` and `runs`.
VARIABLES
    sessions               \* the run of each caller: where it stands, its
                           \* locals and what its session holds

vars == <<engine, call, pure, sessions>>

locals ==
    <<target_date, companies, company_urls, all_jobs, failed_sources, srcIdx,
      uk_jobs, unique_jobs, batch_dupes, new_count, cross_day_dupes, storeIdx>>

NoResult ==
    [status |-> "none", jobs_found |-> 0, new_jobs |-> 0, duplicates |-> 0,
     failed_sources |-> 0]

NullLog ==
    [kind |-> "null", total_scraped |-> 0, uk_filtered |-> 0, batch_deduped |-> 0,
     new_stored |-> 0, cross_day_dupes |-> 0, failed_sources |-> 0]

ErrorLog == [NullLog EXCEPT !.kind = "error"]

\* models.py: ScrapeRun with its column defaults
ScrapeRun(run_date, status) ==
    [run_date |-> run_date, status |-> status, jobs_found |-> 0, new_jobs |-> 0,
     duplicates |-> 0, failed_sources |-> 0, completed_at |-> FALSE, log |-> NullLog]

\* a slip: the row keeps the URL as scraped where its hash belongs
Job_rawhash(job_data, h, scrape_date, first_seen_date, last_seen_date) ==
    [title |-> job_data.title, company |-> job_data.company,
     location |-> job_data.location, url |-> job_data.url, url_hash |-> job_data.url,
     source |-> job_data.source, scrape_date |-> scrape_date,
     first_seen_date |-> first_seen_date, last_seen_date |-> last_seen_date]

\* models.py: Job
Job(job_data, h, scrape_date, first_seen_date, last_seen_date) ==
    [title |-> job_data.title, company |-> job_data.company,
     location |-> job_data.location, url |-> job_data.url, url_hash |-> h,
     source |-> job_data.source, scrape_date |-> scrape_date,
     first_seen_date |-> first_seen_date, last_seen_date |-> last_seen_date]

\* no call of an adapter is being followed
\* no second caller
NoOverlap == sessions = <<>>

NoCall ==
    /\ adapter = "none"
    /\ apc = "idle"
    /\ queries = 0
    /\ queryIdx = 0
    /\ page = 0
    /\ scraped = <<>>
    /\ consecutive_failures = 0
    /\ seen_urls = {}
    /\ attempted = 0
    /\ requests = 0
    /\ upstream = NoResponse
    /\ failed_in_a_row = 0

NotCalled == [called |-> FALSE]

\* no function call is being followed
NoPure ==
    /\ fn = "none"
    /\ arg = <<>>
    /\ ret = NotCalled
    /\ again = NotCalled

\* empty tables, no run started
NoRun ==
    /\ jobs = <<>>
    /\ runs = <<>>
    /\ sview = <<>>
    /\ pc = "idle"
    /\ target_date = 0
    /\ companies = <<>>
    /\ company_urls = <<>>
    /\ all_jobs = <<>>
    /\ failed_sources = 0
    /\ srcIdx = 0
    /\ uk_jobs = <<>>
    /\ unique_jobs = <<>>
    /\ batch_dupes = 0
    /\ new_count = 0
    /\ cross_day_dupes = 0
    /\ storeIdx = 0
    /\ result = NoResult
    /\ faults = 0
    /\ jobs0 = <<>>

Init ==
    /\ world \in Worlds
    /\ NoRun
    /\ NoOverlap
    /\ NoCall
    /\ NoPure

ClearLocals ==
    /\ target_date' = 0
    /\ companies' = <<>>
    /\ company_urls' = <<>>
    /\ all_jobs' = <<>>
    /\ failed_sources' = 0
    /\ srcIdx' = 0
    /\ uk_jobs' = <<>>
    /\ unique_jobs' = <<>>
    /\ batch_dupes' = 0
    /\ new_count' = 0
    /\ cross_day_dupes' = 0
    /\ storeIdx' = 0

\* a slip: the run writes to the record before its own
cur_previous == IF Len(runs) > 1 THEN Len(runs) - 1 ELSE Len(runs)

\* the run record of the run in progress (or of the last run)
cur == Len(runs)

\* ------------------------------------------------------------------ engine.py
\* run(), lines 82-95: the run record is added in state 'running' and committed.
\* Every run works in an application context of its own, so its session starts
\* from the committed tables.
StartRun(d) ==
    /\ pc \in {"idle", "done"}
    /\ Len(runs) < MaxRuns
    /\ runs' = Append(runs, ScrapeRun(d, "running"))
    /\ target_date' = d
    /\ sview' = jobs
    /\ jobs0' = jobs
    /\ result' = NoResult
    /\ pc' = "load"
    /\ UNCHANGED <<world, jobs, companies, company_urls, all_jobs, failed_sources,
                   srcIdx, uk_jobs, unique_jobs, batch_dupes, new_count,
                   cross_day_dupes, storeIdx, faults>>
    /\ UNCHANGED call
    /\ UNCHANGED pure
    /\ UNCHANGED sessions

\* lines 99-113
LoadCompanies ==
    /\ pc = "load"
    /\ LET target_rows == SelectSeq(world.companies, LAMBDA c : c.active)
       IN  /\ companies' = [k \in 1..Len(target_rows) |-> target_rows[k].name]
           /\ company_urls' = SelectSeq(target_rows, LAMBDA c : c.career_url # "")
    /\ all_jobs' = <<>>
    /\ failed_sources' = 0
    /\ srcIdx' = 1
    /\ pc' = "scrape"
    /\ UNCHANGED <<world, jobs, runs, sview, target_date, uk_jobs, unique_jobs,
                   batch_dupes, new_count, cross_day_dupes, storeIdx, result, faults,
                   jobs0>>
    /\ UNCHANGED call
    /\ UNCHANGED pure
    /\ UNCHANGED sessions

\* a slip: an adapter that raises is not counted
ScrapeSource_uncounted ==
    /\ pc = "scrape"
    /\ LET source == sources[srcIdx]
           resp   == world.resp[source]
       IN  IF ~is_available(source, world.config) \/ resp.raise
           THEN UNCHANGED <<all_jobs, failed_sources>>
           ELSE /\ all_jobs' = all_jobs \o SourceScrape(source, resp.items)
                /\ UNCHANGED failed_sources
    /\ IF srcIdx < Len(sources)
       THEN srcIdx' = srcIdx + 1 /\ pc' = "scrape"
       ELSE srcIdx' = srcIdx /\ pc' = "career"
    /\ UNCHANGED <<world, jobs, runs, sview, target_date, companies, company_urls,
                   uk_jobs, unique_jobs, batch_dupes, new_count, cross_day_dupes,
                   storeIdx, result, faults, jobs0>>
    /\ UNCHANGED call
    /\ UNCHANGED pure
    /\ UNCHANGED sessions

\* a slip: an adapter drops the stored listings of its own source before it
\* scrapes
ScrapeSource_purges ==
    /\ pc = "scrape"
    /\ LET source == sources[srcIdx]
           resp   == world.resp[source]
       IN  /\ sview' = SelectSeq(sview, LAMBDA row : row.source # source)
           /\ IF ~is_available(source, world.config)
              THEN UNCHANGED <<all_jobs, failed_sources>>
              ELSE IF resp.raise
              THEN /\ failed_sources' = failed_sources + 1
                   /\ UNCHANGED all_jobs
              ELSE /\ all_jobs' = all_jobs \o SourceScrape(source, resp.items)
                   /\ UNCHANGED failed_sources
    /\ IF srcIdx < Len(sources)
       THEN srcIdx' = srcIdx + 1 /\ pc' = "scrape"
       ELSE srcIdx' = srcIdx /\ pc' = "career"
    /\ UNCHANGED <<world, jobs, runs, target_date, companies, company_urls,
                   uk_jobs, unique_jobs, batch_dupes, new_count, cross_day_dupes,
                   storeIdx, result, faults, jobs0>>
    /\ UNCHANGED call
    /\ UNCHANGED pure
    /\ UNCHANGED sessions

\* lines 115-132: one pass of the loop over self.sources
ScrapeSource ==
    /\ pc = "scrape"
    /\ LET source == sources[srcIdx]
           resp   == world.resp[source]
       IN  IF ~is_available(source, world.config)
           THEN UNCHANGED <<all_jobs, failed_sources>>
           ELSE IF resp.raise
           THEN /\ failed_sources' = failed_sources + 1
                /\ UNCHANGED all_jobs
           ELSE /\ all_jobs' = all_jobs \o SourceScrape(source, resp.items)
                /\ UNCHANGED failed_sources
    /\ IF srcIdx < Len(sources)
       THEN srcIdx' = srcIdx + 1 /\ pc' = "scrape"
       ELSE srcIdx' = srcIdx /\ pc' = "career"
    /\ UNCHANGED <<world, jobs, runs, sview, target_date, companies, company_urls,
                   uk_jobs, unique_jobs, batch_dupes, new_count, cross_day_dupes,
                   storeIdx, result, faults, jobs0>>
    /\ UNCHANGED call
    /\ UNCHANGED pure
    /\ UNCHANGED sessions

\* lines 135-149
ScrapeCareerPages ==
    /\ pc = "career"
    /\ IF company_urls = <<>>
       THEN UNCHANGED <<all_jobs, failed_sources>>
       ELSE IF world.career_raise
       THEN /\ failed_sources' = failed_sources + 1
            /\ UNCHANGED all_jobs
       ELSE /\ all_jobs' = all_jobs \o scrape_career_pages(company_urls, world.pages)
            /\ UNCHANGED failed_sources
    /\ pc' = "filter"
    /\ UNCHANGED <<world, jobs, runs, sview, target_date, companies, company_urls,
                   srcIdx, uk_jobs, unique_jobs, batch_dupes, new_count,
                   cross_day_dupes, storeIdx, result, faults, jobs0>>
    /\ UNCHANGED call
    /\ UNCHANGED pure
    /\ UNCHANGED sessions

\* lines 152-166
FilterAndDedup ==
    /\ pc = "filter"
    /\ LET uk == SelectSeq(all_jobs, is_uk_based)
           d  == deduplicate_jobs(uk)
       IN  /\ uk_jobs' = uk
           /\ unique_jobs' = d.unique
           /\ batch_dupes' = d.dupes
    /\ new_count' = 0
    /\ cross_day_dupes' = 0
    /\ storeIdx' = 1
    /\ pc' = "store"
    /\ UNCHANGED <<world, jobs, runs, sview, target_date, companies, company_urls,
                   all_jobs, failed_sources, srcIdx, result, faults, jobs0>>
    /\ UNCHANGED call
    /\ UNCHANGED pure
    /\ UNCHANGED sessions

\* a slip: the same-day lookup compares the date with the row's last_seen_date
existing_today_lastseen(view, h, d) ==
    {k \in 1..Len(view) : view[k].url_hash = h /\ view[k].last_seen_date < d}

\* Job.query.filter_by(url_hash=h, scrape_date=target_date).first(): the ids
\* of the rows the query matches
existing_today(view, h, d) ==
    {k \in 1..Len(view) : view[k].url_hash = h /\ view[k].scrape_date = d}

\* a slip: the lookup of earlier days finds nothing
existing_prev_none(view, h) == {}

\* Job.query.filter_by(url_hash=h).order_by(Job.scrape_date.desc()).first():
\* the ids of the rows that can come first
existing_prev(view, h) ==
    {k \in 1..Len(view) :
        /\ view[k].url_hash = h
        /\ \A m \in 1..Len(view) :
              view[m].url_hash = h => view[m].scrape_date <= view[k].scrape_date}

\* a slip: a record already stored for the date is skipped without being counted
StoreOne_uncounted ==
    /\ pc = "store"
    /\ storeIdx <= Len(unique_jobs)
    /\ LET job_data == unique_jobs[storeIdx]
           h        == url_hash(job_data.url)
       IN  IF existing_today(sview, h, target_date) # {}
           THEN UNCHANGED <<sview, new_count, cross_day_dupes>>
           ELSE /\ \/ /\ existing_prev(sview, h) = {}
                      /\ sview' = Append(sview,
                             Job(job_data, h, target_date, target_date, target_date))
                   \/ \E p \in existing_prev(sview, h) :
                         sview' = Append(
                             [sview EXCEPT ![p].last_seen_date = target_date],
                             Job(job_data, h, target_date,
                                 sview[p].first_seen_date, target_date))
                /\ new_count' = new_count + 1
                /\ UNCHANGED cross_day_dupes
    /\ storeIdx' = storeIdx + 1
    /\ UNCHANGED <<world, jobs, runs, pc, target_date, companies, company_urls,
                   all_jobs, failed_sources, srcIdx, uk_jobs, unique_jobs,
                   batch_dupes, result, faults, jobs0>>
    /\ UNCHANGED call
    /\ UNCHANGED pure
    /\ UNCHANGED sessions

\* lines 168-209: one pass of the loop over unique_jobs
StoreOne ==
    /\ pc = "store"
    /\ storeIdx <= Len(unique_jobs)
    /\ LET job_data == unique_jobs[storeIdx]
           h        == url_hash(job_data.url)
       IN  IF existing_today(sview, h, target_date) # {}
           THEN /\ cross_day_dupes' = cross_day_dupes + 1
                /\ UNCHANGED <<sview, new_count>>
           ELSE /\ \/ /\ existing_prev(sview, h) = {}
                      /\ sview' = Append(sview,
                             Job(job_data, h, target_date, target_date, target_date))
                   \/ \E p \in existing_prev(sview, h) :
                         sview' = Append(
                             [sview EXCEPT ![p].last_seen_date = target_date],
                             Job(job_data, h, target_date,
                                 sview[p].first_seen_date, target_date))
                /\ new_count' = new_count + 1
                /\ UNCHANGED cross_day_dupes
    /\ storeIdx' = storeIdx + 1
    /\ UNCHANGED <<world, jobs, runs, pc, target_date, companies, company_urls,
                   all_jobs, failed_sources, srcIdx, uk_jobs, unique_jobs,
                   batch_dupes, result, faults, jobs0>>
    /\ UNCHANGED call
    /\ UNCHANGED pure
    /\ UNCHANGED sessions

\* line 211: db.session.commit() of the job rows
CommitJobs ==
    /\ pc = "store"
    /\ storeIdx > Len(unique_jobs)
    /\ jobs' = sview
    /\ pc' = "commit_run"
    /\ UNCHANGED <<world, runs, sview, locals, result, faults, jobs0>>
    /\ UNCHANGED call
    /\ UNCHANGED pure
    /\ UNCHANGED sessions

\* line 211 raising: the transaction is rolled back, the pending rows are gone
CommitJobsFails ==
    /\ pc = "store"
    /\ storeIdx > Len(unique_jobs)
    /\ faults < MaxFaults
    /\ faults' = faults + 1
    /\ sview' = jobs
    /\ pc' = "handler"
    /\ UNCHANGED <<world, jobs, runs, locals, result, jobs0>>
    /\ UNCHANGED call
    /\ UNCHANGED pure
    /\ UNCHANGED sessions

\* lines 214-239: the run record is completed and committed, run() returns
CommitRun ==
    /\ pc = "commit_run"
    /\ runs' = [runs EXCEPT ![cur] =
                    [run_date |-> runs[cur].run_date,
                     status |-> "completed",
                     jobs_found |-> Len(all_jobs),
                     new_jobs |-> new_count,
                     duplicates |-> batch_dupes + cross_day_dupes,
                     failed_sources |-> failed_sources,
                     completed_at |-> TRUE,
                     log |-> [kind |-> "json",
                              total_scraped |-> Len(all_jobs),
                              uk_filtered |-> Len(uk_jobs),
                              batch_deduped |-> Len(unique_jobs),
                              new_stored |-> new_count,
                              cross_day_dupes |-> cross_day_dupes,
                              failed_sources |-> failed_sources]]]
    /\ result' = [status |-> "completed", jobs_found |-> Len(all_jobs),
                  new_jobs |-> new_count,
                  duplicates |-> batch_dupes + cross_day_dupes,
                  failed_sources |-> failed_sources]
    /\ pc' = "done"
    /\ ClearLocals
    /\ UNCHANGED <<world, jobs, sview, faults, jobs0>>
    /\ UNCHANGED call
    /\ UNCHANGED pure
    /\ UNCHANGED sessions

\* line 228 raising: the changes to the run record are rolled back
CommitRunFails ==
    /\ pc = "commit_run"
    /\ faults < MaxFaults
    /\ faults' = faults + 1
    /\ sview' = jobs
    /\ pc' = "handler"
    /\ UNCHANGED <<world, jobs, runs, locals, result, jobs0>>
    /\ UNCHANGED call
    /\ UNCHANGED pure
    /\ UNCHANGED sessions

\* An exception anywhere in lines 99-209 (a storage query, an adapter result
\* that is no list of records): control passes to the handler with the session
\* as it stands.
RunError ==
    /\ pc \in {"load", "scrape", "career", "filter", "store"}
    /\ faults < MaxFaults
    /\ faults' = faults + 1
    /\ pc' = "handler"
    /\ UNCHANGED <<world, jobs, runs, sview, locals, result, jobs0>>
    /\ UNCHANGED call
    /\ UNCHANGED pure
    /\ UNCHANGED sessions

\* lines 241-251: the handler marks the run failed and commits the session,
\* with whatever the session still holds
Handler ==
    /\ pc = "handler"
    /\ runs' = [runs EXCEPT ![cur] =
                    [runs[cur] EXCEPT !.status = "failed", !.completed_at = TRUE,
                                      !.log = ErrorLog]]
    /\ jobs' = sview
    /\ result' = [NoResult EXCEPT !.status = "failed"]
    /\ pc' = "done"
    /\ ClearLocals
    /\ UNCHANGED <<world, sview, faults, jobs0>>
    /\ UNCHANGED call
    /\ UNCHANGED pure
    /\ UNCHANGED sessions

\* line 246 raising: run() raises, nothing of the handler is stored
HandlerFails ==
    /\ pc = "handler"
    /\ faults < MaxFaults
    /\ faults' = faults + 1
    /\ sview' = jobs
    /\ result' = [NoResult EXCEPT !.status = "raised"]
    /\ pc' = "done"
    /\ ClearLocals
    /\ UNCHANGED <<world, jobs, runs, jobs0>>
    /\ UNCHANGED call
    /\ UNCHANGED pure
    /\ UNCHANGED sessions

Next ==
    \/ \E d \in Dates : StartRun(d)
    \/ LoadCompanies
    \/ ScrapeSource
    \/ ScrapeCareerPages
    \/ FilterAndDedup
    \/ StoreOne
    \/ CommitJobs
    \/ CommitJobsFails
    \/ CommitRun
    \/ CommitRunFails
    \/ RunError
    \/ Handler
    \/ HandlerFails

Spec == Init /\ [][Next]_vars

\* ------------------------------------------------------------------ scrape()
\* One call of scrape(companies, general_queries) of an adapter, request by
\* request, on whatever the upstream answers.
\* the web search is also called with a list long enough for its cap on the
\* queries of one call
LongList == 65

InitAdapters ==
    /\ world = World(AllKeys, Plain, Quiet, FALSE, NoPages)
    /\ NoRun
    /\ NoOverlap
    /\ adapter \in {"adzuna", "google_search", "devitjobs", "themuse"}
    /\ \E n \in (0..MaxQueries) \cup (IF adapter = "google_search" THEN {LongList} ELSE {}) :
          queries = QueriesOf(adapter, n)
    /\ apc = "request"
    /\ queryIdx = 1
    /\ page = 1
    /\ scraped = <<>>
    /\ consecutive_failures = 0
    /\ seen_urls = {}
    /\ attempted = 0
    /\ requests = 0
    /\ upstream = NoResponse
    /\ failed_in_a_row = 0
    /\ NoPure

\* the loop over the queries goes on to its next pass
NextQuery ==
    /\ queryIdx' = queryIdx + 1
    /\ page' = 1
    /\ apc' = "request"

\* adzuna.py, _search lines 54-92 within scrape lines 31-35: one page is asked
\* for and read.  _search ends every failure in its own except clause, so the
\* except clause of scrape (lines 36-37) has nothing to catch.
AdzunaRequestOn(responses) ==
    /\ adapter = "adzuna"
    /\ apc = "request"
    /\ queryIdx <= queries
    /\ \E resp \in responses :
         LET r == AdzunaPage(resp)
         IN  /\ upstream' = resp
             /\ requests' = requests + 1
             /\ attempted' = IF page = 1 THEN attempted + 1 ELSE attempted
             /\ scraped' = scraped \o r.jobs
             /\ failed_in_a_row' = IF r.exc THEN failed_in_a_row + 1 ELSE 0
             /\ IF r.exc THEN apc' = "except" /\ UNCHANGED <<queryIdx, page>>
                ELSE IF r.stop \/ page = MAX_PAGES_PER_SOURCE THEN NextQuery
                ELSE page' = page + 1 /\ UNCHANGED <<queryIdx, apc>>
    /\ UNCHANGED <<adapter, queries, consecutive_failures, seen_urls>>
    /\ UNCHANGED engine
    /\ UNCHANGED pure
    /\ UNCHANGED sessions

AdzunaRequest == AdzunaRequestOn(AdzunaResponses)

\* adzuna.py, lines 94-96: the error is logged and the pages of the query end
AdzunaExcept ==
    /\ adapter = "adzuna"
    /\ apc = "except"
    /\ NextQuery
    /\ UNCHANGED <<adapter, queries, scraped, consecutive_failures, seen_urls,
                   attempted, requests, upstream, failed_in_a_row>>
    /\ UNCHANGED engine
    /\ UNCHANGED pure
    /\ UNCHANGED sessions

\* google_search.py, lines 102-107: the loop ends on consecutive failures
GoogleBreak ==
    /\ adapter = "google_search"
    /\ apc = "request"
    /\ queryIdx <= queries
    /\ consecutive_failures >= FAILURE_LIMIT
    /\ apc' = "returned"
    /\ UNCHANGED <<adapter, queries, queryIdx, page, scraped, consecutive_failures,
                   seen_urls, attempted, requests, upstream, failed_in_a_row>>
    /\ UNCHANGED engine
    /\ UNCHANGED pure
    /\ UNCHANGED sessions

\* google_search.py, lines 109-139: one query is searched and its results taken
GoogleQueryOn(responses) ==
    /\ adapter = "google_search"
    /\ apc = "request"
    /\ queryIdx <= queries
    /\ consecutive_failures < FAILURE_LIMIT
    /\ \E resp \in responses :
         /\ upstream' = resp
         /\ requests' = requests + (IF resp.status = "202" THEN 2 ELSE 1)
         /\ attempted' = attempted + 1
         /\ failed_in_a_row' = IF SearchRaises(resp) \/ _search(resp).none
                                THEN failed_in_a_row + 1 ELSE 0
         /\ IF SearchRaises(resp)
            THEN /\ apc' = "except"
                 /\ UNCHANGED <<queryIdx, page, scraped, consecutive_failures,
                                seen_urls>>
            ELSE LET found == _search(resp)
                     taken == TakeResults(found.results, seen_urls, scraped)
                 IN  IF found.none
                     THEN /\ consecutive_failures' = consecutive_failures + 1
                          /\ NextQuery
                          /\ UNCHANGED <<scraped, seen_urls>>
                     ELSE /\ consecutive_failures' = 0
                          /\ scraped' = taken.jobs
                          /\ seen_urls' = taken.seen_urls
                          /\ NextQuery
    /\ UNCHANGED <<adapter, queries>>
    /\ UNCHANGED engine
    /\ UNCHANGED pure
    /\ UNCHANGED sessions

GoogleQuery == GoogleQueryOn(GoogleResponses)

\* a slip: scrape() has no except clause, the error leaves it
GoogleExcept_propagates ==
    /\ adapter = "google_search"
    /\ apc = "except"
    /\ apc' = "raised"
    /\ UNCHANGED <<adapter, queries, queryIdx, page, scraped, consecutive_failures,
                   seen_urls, attempted, requests, upstream, failed_in_a_row>>
    /\ UNCHANGED engine
    /\ UNCHANGED pure
    /\ UNCHANGED sessions

\* google_search.py, lines 141-143: the error is logged and counted
GoogleExcept ==
    /\ adapter = "google_search"
    /\ apc = "except"
    /\ consecutive_failures' = consecutive_failures + 1
    /\ NextQuery
    /\ UNCHANGED <<adapter, queries, scraped, seen_urls, attempted, requests,
                   upstream, failed_in_a_row>>
    /\ UNCHANGED engine
    /\ UNCHANGED pure
    /\ UNCHANGED sessions

\* TheMuseSource._fetch_location, `for item in results`: a listing whose id was
\* seen is skipped (the id of a listing is modelled by its URL)
RECURSIVE TakeUnseen(_, _, _)
TakeUnseen(items, seen, acc) ==
    IF items = <<>> THEN [jobs |-> acc, seen_ids |-> seen]
    ELSE LET it  == Head(items)
             job == JobData(it.title, it.company, LocationOf("themuse", it),
                            it.url, "themuse")
         IN  IF it.url \in seen
             THEN TakeUnseen(Tail(items), seen, acc)
             ELSE TakeUnseen(Tail(items), seen \cup {it.url},
                             IF is_valid(job) THEN Append(acc, job) ELSE acc)

\* TheMuseSource._fetch_location, one pass of `for page`: the records the pass
\* appends, the ids seen after it, whether it ends in the except clause,
\* whether it leaves the loop
TheMusePage(resp, seen) ==
    IF resp.status \in {"timeout", "error"}
    THEN [jobs |-> <<>>, seen_ids |-> seen, exc |-> TRUE, stop |-> TRUE]
    ELSE IF resp.status # "200"
    THEN [jobs |-> <<>>, seen_ids |-> seen, exc |-> FALSE, stop |-> TRUE]
    ELSE IF resp.body # "fine"
    THEN [jobs |-> <<>>, seen_ids |-> seen, exc |-> TRUE, stop |-> TRUE]
    ELSE IF resp.entries = <<>>
    THEN [jobs |-> <<>>, seen_ids |-> seen, exc |-> FALSE, stop |-> TRUE]
    ELSE LET taken == TakeUnseen(Before(resp.entries), seen, <<>>)
         IN  [jobs |-> taken.jobs, seen_ids |-> taken.seen_ids,
              exc  |-> Malformed(resp.entries),
              stop |-> Malformed(resp.entries) \/ ~resp.more]

TheMuseResponses ==
    {Failing("timeout"), Failing("500"), Unparsable("notjson"),
     Listing(<<>>, FALSE), Listing(<<Entry(ItemA)>>, TRUE),
     Listing(<<Entry(ItemA), Entry(ItemC)>>, FALSE),
     Listing(<<Entry(ItemA), BadEntry, Entry(ItemC)>>, TRUE)}

\* themuse.py, _fetch_location lines 74-156 within scrape lines 48-55: one page
\* of a location is asked for and read
TheMuseRequest ==
    /\ adapter = "themuse"
    /\ apc = "request"
    /\ queryIdx <= queries
    /\ \E resp \in TheMuseResponses :
         LET r == TheMusePage(resp, seen_urls)
         IN  /\ upstream' = resp
             /\ requests' = requests + 1
             /\ attempted' = IF page = 1 THEN attempted + 1 ELSE attempted
             /\ scraped' = scraped \o r.jobs
             /\ seen_urls' = r.seen_ids
             /\ failed_in_a_row' = IF r.exc \/ resp.status # "200"
                                    THEN failed_in_a_row + 1 ELSE 0
             /\ IF r.exc THEN apc' = "except" /\ UNCHANGED <<queryIdx, page>>
                ELSE IF r.stop \/ page = MAX_PAGES_PER_SOURCE THEN NextQuery
                ELSE page' = page + 1 /\ UNCHANGED <<queryIdx, apc>>
    /\ UNCHANGED <<adapter, queries, consecutive_failures>>
    /\ UNCHANGED engine
    /\ UNCHANGED pure
    /\ UNCHANGED sessions

\* themuse.py, lines 158-162: the error is logged and the pages of the location end
TheMuseExcept ==
    /\ adapter = "themuse"
    /\ apc = "except"
    /\ NextQuery
    /\ UNCHANGED <<adapter, queries, scraped, consecutive_failures, seen_urls,
                   attempted, requests, upstream, failed_in_a_row>>
    /\ UNCHANGED engine
    /\ UNCHANGED pure
    /\ UNCHANGED sessions

\* adzuna.py line 44, google_search.py lines 148-149: the queries are through
Return ==
    /\ adapter \in {"adzuna", "google_search", "reed", "themuse"}
    /\ apc = "request"
    /\ queryIdx > queries
    /\ apc' = "returned"
    /\ UNCHANGED <<adapter, queries, queryIdx, page, scraped, consecutive_failures,
                   seen_urls, attempted, requests, upstream, failed_in_a_row>>
    /\ UNCHANGED engine
    /\ UNCHANGED pure
    /\ UNCHANGED sessions

\* devitjobs.py, lines 29-53 and 60-61: the one request; a listing that does
\* not parse is skipped on its own
DevitjobsRequest ==
    /\ adapter = "devitjobs"
    /\ apc = "request"
    /\ \E resp \in DevitjobsResponses :
         /\ upstream' = resp
         /\ requests' = requests + 1
         /\ attempted' = attempted + 1
         /\ failed_in_a_row' = IF resp.status # "200" \/ resp.body # "fine"
                                THEN failed_in_a_row + 1 ELSE 0
         /\ IF resp.status # "200" \/ resp.body = "notjson"
            THEN apc' = "except" /\ UNCHANGED scraped
            ELSE IF resp.body = "shape"
            THEN apc' = "returned" /\ UNCHANGED scraped
            ELSE /\ apc' = "returned"
                 /\ scraped' = scraped \o SourceScrape("devitjobs", WellFormed(resp.entries))
    /\ UNCHANGED <<adapter, queries, queryIdx, page, consecutive_failures, seen_urls>>
    /\ UNCHANGED engine
    /\ UNCHANGED pure
    /\ UNCHANGED sessions

\* devitjobs.py, lines 55-61: the error is logged, the list is returned
DevitjobsExcept ==
    /\ adapter = "devitjobs"
    /\ apc = "except"
    /\ apc' = "returned"
    /\ UNCHANGED <<adapter, queries, queryIdx, page, scraped, consecutive_failures,
                   seen_urls, attempted, requests, upstream, failed_in_a_row>>
    /\ UNCHANGED engine
    /\ UNCHANGED pure
    /\ UNCHANGED sessions

NextAdapters ==
    \/ AdzunaRequest
    \/ AdzunaExcept
    \/ GoogleBreak
    \/ GoogleQuery
    \/ GoogleExcept
    \/ Return
    \/ DevitjobsRequest
    \/ DevitjobsExcept
    \/ TheMuseRequest
    \/ TheMuseExcept

SpecAdapters == InitAdapters /\ [][NextAdapters]_vars

\* scrape() is a sequential loop: a step that can be taken is taken
SpecAdaptersFair == SpecAdapters /\ WF_vars(NextAdapters)

\* ------------------------------------------------------------------ an outage
\* One call of scrape() of a multi-query adapter while its upstream is down:
\* no request is answered with a 200.
MaxOutageQueries == 7

Outage(responses) ==
    {r \in responses : r.status # "200" /\ ~(r.status = "202" /\ r.retry = "200")}

ReedResponses ==
    {Failing("timeout"), Failing("500"), Unparsable("notjson"),
     Listing(<<>>, FALSE), Listing(<<Entry(ItemA)>>, TRUE)}

\* ReedSource._search, the pass of `for skip` (with MAX_RESULTS_PER_COMPANY = 50
\* of the engine's configuration there is one pass): the records it appends
\* and whether it ends in the except clause
ReedPage(resp) ==
    IF resp.status # "200" \/ resp.body # "fine"
    THEN [jobs |-> <<>>, exc |-> TRUE]
    ELSE [jobs |-> SourceScrape("reed", Before(resp.entries)),
          exc  |-> Malformed(resp.entries)]

\* reed.py, _search lines 54-95 within scrape lines 28-32: the page is asked for
ReedRequestOn(responses) ==
    /\ adapter = "reed"
    /\ apc = "request"
    /\ queryIdx <= queries
    /\ \E resp \in responses :
         LET r == ReedPage(resp)
         IN  /\ upstream' = resp
             /\ requests' = requests + 1
             /\ attempted' = attempted + 1
             /\ scraped' = scraped \o r.jobs
             /\ failed_in_a_row' = IF r.exc THEN failed_in_a_row + 1 ELSE 0
             /\ IF r.exc THEN apc' = "except" /\ UNCHANGED <<queryIdx, page>>
                ELSE NextQuery
    /\ UNCHANGED <<adapter, queries, consecutive_failures, seen_urls>>
    /\ UNCHANGED engine
    /\ UNCHANGED pure
    /\ UNCHANGED sessions

\* reed.py, lines 93-95: the error is logged and the pages of the query end
ReedExcept ==
    /\ adapter = "reed"
    /\ apc = "except"
    /\ NextQuery
    /\ UNCHANGED <<adapter, queries, scraped, consecutive_failures, seen_urls,
                   attempted, requests, upstream, failed_in_a_row>>
    /\ UNCHANGED engine
    /\ UNCHANGED pure
    /\ UNCHANGED sessions

InitOutage ==
    /\ world = World(AllKeys, Plain, Quiet, FALSE, NoPages)
    /\ NoRun
    /\ NoOverlap
    /\ adapter \in {"adzuna", "google_search", "reed"}
    /\ \E n \in 0..MaxOutageQueries : queries = QueriesOf(adapter, n)
    /\ apc = "request"
    /\ queryIdx = 1
    /\ page = 1
    /\ scraped = <<>>
    /\ consecutive_failures = 0
    /\ seen_urls = {}
    /\ attempted = 0
    /\ requests = 0
    /\ upstream = NoResponse
    /\ failed_in_a_row = 0
    /\ NoPure

AdzunaRequestFails == AdzunaRequestOn(Outage(AdzunaResponses))

GoogleQueryFails == GoogleQueryOn(Outage(GoogleResponses))

ReedRequestFails == ReedRequestOn(Outage(ReedResponses))

NextOutage ==
    \/ AdzunaRequestFails
    \/ AdzunaExcept
    \/ GoogleBreak
    \/ GoogleQueryFails
    \/ GoogleExcept
    \/ ReedRequestFails
    \/ ReedExcept
    \/ Return

SpecOutage == InitOutage /\ [][NextOutage]_vars

\* ------------------------------------------------------------------ functions
\* One call of deduplicate_jobs, of canonicalize_url and url_hash, or of
\* is_uk_based, on an argument of a bounded set.
MaxBatch == 3

\* the sequences over S of length n, and of length up to n
RECURSIVE SeqsOfLen(_, _)
SeqsOfLen(S, n) ==
    IF n = 0 THEN {<<>>}
    ELSE {Append(q, x) : q \in SeqsOfLen(S, n - 1), x \in S}

SeqsUpTo(S, n) == UNION {SeqsOfLen(S, k) : k \in 0..n}

\* the records a batch is made of
BatchRecords ==
    {JobData(it.title, it.company, it.location, it.url, "reed") :
        it \in {ItemA, ItemA2, ItemB, ItemC, ItemD, ItemN}}

Batches == SeqsUpTo(BatchRecords, MaxBatch)

\* how many query parameters a URL carries at most
MaxParams == 2

\* the parameters of a query string: a job id, two utm_ parameters (one of
\* them, utm_id, not listed in _TRACKING_PARAMS) and a referrer
QueryParams ==
    {[k |-> "id", v |-> "1"], [k |-> "utm_source", v |-> "x"],
     [k |-> "utm_id", v |-> "7"], [k |-> "ref", v |-> "x"]}

Urls ==
    {[Url("a") EXCEPT !.slash = sl, !.query = q] :
        sl \in BOOLEAN, q \in SeqsUpTo(QueryParams, MaxParams)}

\* ---- the date-scoped exports of the API (routes/api.py, netlify api.py) ----
\* A date string of a request: absent, empty, a YYYY-MM-DD date, a date
\* written without leading zeros (2024-1-5, which strptime accepts), a
\* well-shaped string naming no day of the calendar (2024-02-30), or any
\* other text.
DateString(kind, day) == [kind |-> kind, day |-> day]

DateStrings ==
    {DateString(kind, day) : kind \in {"iso", "unpadded", "no_such_day"}, day \in Dates}
    \cup {DateString(kind, 1) : kind \in {"absent", "empty", "garbage"}}

NoDate == [date |-> FALSE]

ADate(day) == [date |-> TRUE, day |-> day]

\* _parse_date: the default for no string and for a string strptime rejects
_parse_date(date_str, default) ==
    CASE date_str.kind \in {"absent", "empty"}         -> default
      [] date_str.kind \in {"iso", "unpadded"}         -> ADate(date_str.day)
      [] date_str.kind \in {"no_such_day", "garbage"}  -> default

DEFAULT_DAYS == 7

\* what a handler answers: the status, the error message of an error
\* response, and the scrape_date range of the storage query it ran, if any
ErrorResponse(status, error) ==
    [status |-> status, error |-> error, queried |-> FALSE]

FileResponse(date_from, date_to) ==
    [status |-> 200, error |-> "", queried |-> TRUE,
     date_from |-> date_from, date_to |-> date_to]

daily_json(date_str) ==
    LET target == _parse_date(date_str, NoDate)
    IN  IF ~target.date
        THEN ErrorResponse(400, "Invalid date format. Use YYYY-MM-DD")
        ELSE FileResponse(target.day, target.day)

_export_json_range(params) ==
    LET date_from == _parse_date(params.date_from, NoDate)
        date_to   == _parse_date(params.date_to, NoDate)
    IN  IF ~date_from.date \/ ~date_to.date
        THEN ErrorResponse(400, "Both date_from and date_to required (YYYY-MM-DD).")
        ELSE IF date_from.day > date_to.day
        THEN ErrorResponse(400, "date_from must be on or before date_to.")
        ELSE FileResponse(date_from.day, date_to.day)

\* _build_jobs_query / _build_filtered_query: the range of the query
_build_jobs_query(params, today) ==
    [date_from |-> _parse_date(params.date_from, ADate(today - DEFAULT_DAYS)).day,
     date_to   |-> _parse_date(params.date_to, ADate(today)).day]

export_csv(params, today) ==
    LET query == _build_jobs_query(params, today)
    IN  FileResponse(query.date_from, query.date_to)

export_excel(params, today) ==
    LET query == _build_jobs_query(params, today)
    IN  FileResponse(query.date_from, query.date_to)

Exports == {"daily_json", "export_json_range", "export_csv", "export_excel"}

\* a request: the operation, its date strings, and the day it is served on
Requests ==
    {[op |-> "daily_json", date_str |-> s, today |-> today] :
        s \in {x \in DateStrings : x.kind \notin {"absent", "empty"}}, today \in Dates}
    \cup {[op |-> op, params |-> [date_from |-> s, date_to |-> t], today |-> today] :
            op \in Exports \ {"daily_json"}, s \in DateStrings, t \in DateStrings,
            today \in Dates}

Respond(request) ==
    CASE request.op = "daily_json"        -> daily_json(request.date_str)
      [] request.op = "export_json_range" -> _export_json_range(request.params)
      [] request.op = "export_csv"        -> export_csv(request.params, request.today)
      [] request.op = "export_excel"      -> export_excel(request.params, request.today)

\* the locations is_uk_based() is called with: up to MaxTokens words and
\* separators of a vocabulary that holds an exclusion marker, place names,
\* the country code, a remote term, and words that hold one of them inside
MaxTokens == 3

LocationTokens ==
    {"usa", "us", "only", "campus", "london", "kentucky", "uk", "ukraine",
     "remote", "frankfurt", "germany", "kaufbeuren", ","}

Locations ==
    {[Text(ws) EXCEPT !.deco = capitals] :
        ws \in SeqsUpTo(LocationTokens, MaxTokens), capitals \in BOOLEAN}

\* the postings of the longest page
LongPage == 101

CareerUrls == {"u1", "u2", "u3"}

\* the companies of a call, as the engine passes them
CareerCompanies ==
    <<[name |-> Text(<<"acme">>), career_url |-> "u1"],
      [name |-> Text(<<"globex">>), career_url |-> "u2"],
      [name |-> Text(<<"initech">>), career_url |-> "u3"]>>

\* a failure, and pages of no, two and LongPage postings on each path
CareerPages ==
    LET Numbered(n) ==
            [k \in 1..n |->
                Item(Text(<<"dev">>), EmptyText, Text(<<"london">>),
                     [Url("a") EXCEPT !.query = <<[k |-> "id", v |-> k]>>])]
    IN  {Raise}
        \cup {Page("api", Numbered(n), <<>>) : n \in {0, 2, LongPage}}
        \cup {Page("html", Numbered(n), Numbered(2)) : n \in {2, LongPage}}
        \cup {Page("html", <<>>, Numbered(n)) : n \in {1, 2, LongPage}}

InitFunctions ==
    /\ world = World(AllKeys, Plain, Quiet, FALSE, NoPages)
    /\ NoRun
    /\ NoOverlap
    /\ NoCall
    /\ \/ fn = "deduplicate_jobs" /\ arg \in Batches
       \/ fn = "url_hash" /\ arg \in Urls \X Urls
       \/ fn = "export" /\ arg \in Requests
       \/ fn = "scrape_career_pages"
          /\ arg \in [company_urls : {CareerCompanies},
                      pages : [CareerUrls -> CareerPages]]
       \/ fn = "is_uk_based"
          /\ arg \in {JobData(ItemA.title, ItemA.company, loc, ItemA.url, "reed") :
                         loc \in Locations}
    /\ ret = NotCalled
    /\ again = NotCalled

Returned(value) == [called |-> TRUE, value |-> value]

\* scrape_career_pages(arg.company_urls), with arg.pages behind the URLs
CallScrapeCareerPages ==
    /\ fn = "scrape_career_pages"
    /\ ~ret.called
    /\ ret' = Returned(scrape_career_pages(arg.company_urls, arg.pages))
    /\ UNCHANGED <<fn, arg, again>>
    /\ UNCHANGED <<engine, call>>
    /\ UNCHANGED sessions

\* deduplicate_jobs(arg)
Deduplicate ==
    /\ fn = "deduplicate_jobs"
    /\ ~ret.called
    /\ ret' = Returned(deduplicate_jobs(arg))
    /\ UNCHANGED <<fn, arg, again>>
    /\ UNCHANGED <<engine, call>>
    /\ UNCHANGED sessions

\* deduplicate_jobs(unique_jobs), on the list the first call returned
DeduplicateAgain ==
    /\ fn = "deduplicate_jobs"
    /\ ret.called
    /\ ~again.called
    /\ again' = Returned(deduplicate_jobs(ret.value.unique))
    /\ UNCHANGED <<fn, arg, ret>>
    /\ UNCHANGED <<engine, call>>
    /\ UNCHANGED sessions

\* canonicalize_url and url_hash of two URLs
Canonicalize ==
    /\ fn = "url_hash"
    /\ ~ret.called
    /\ ret' = Returned([canonical |-> <<canonicalize_url(arg[1]), canonicalize_url(arg[2])>>,
                        hash      |-> <<url_hash(arg[1]), url_hash(arg[2])>>])
    /\ UNCHANGED <<fn, arg, again>>
    /\ UNCHANGED <<engine, call>>
    /\ UNCHANGED sessions

IsUkBased ==
    /\ fn = "is_uk_based"
    /\ ~ret.called
    /\ ret' = Returned(is_uk_based(arg))
    /\ UNCHANGED <<fn, arg, again>>
    /\ UNCHANGED <<engine, call>>
    /\ UNCHANGED sessions

\* one export request, and the same request served again on any day
Export ==
    /\ fn = "export"
    /\ ~ret.called
    /\ ret' = Returned(Respond(arg))
    /\ UNCHANGED <<fn, arg, again>>
    /\ UNCHANGED <<engine, call>>
    /\ UNCHANGED sessions

ExportAgain ==
    /\ fn = "export"
    /\ ret.called
    /\ ~again.called
    /\ \E today \in Dates : again' = Returned(Respond([arg EXCEPT !.today = today]))
    /\ UNCHANGED <<fn, arg, ret>>
    /\ UNCHANGED <<engine, call>>
    /\ UNCHANGED sessions

NextFunctions ==
    \/ Deduplicate
    \/ DeduplicateAgain
    \/ Canonicalize
    \/ IsUkBased
    \/ Export
    \/ ExportAgain
    \/ CallScrapeCareerPages

SpecFunctions == InitFunctions /\ [][NextFunctions]_vars

\* ------------------------------------------------------------------ two runs
\* app.py daily_scrape and api.py trigger_scrape both call engine.run() for
\* today. The scrape, filter and dedup steps of a run touch no table, so a run
\* is followed from its run record to its store loop with the batch it has
\* built; the two callers may have been given different listings.
Callers == {"scheduled", "manual"}

Today == MaxDate

\* unique_jobs of a run that was given these listings by one board
BatchOf(items) ==
    deduplicate_jobs(SelectSeq(SourceScrape("devitjobs", items), is_uk_based)).unique

Batches2 ==
    {BatchOf(items) : items \in {<<>>, <<ItemA>>, <<ItemA, ItemC>>, <<ItemC, ItemA>>}}

\* the session of a run: its new Job objects not yet flushed (pending) and
\* flushed in its open transaction (flushed), the stored rows whose
\* last_seen_date it has set, not yet flushed (dirty) and flushed (written),
\* and whether its transaction can still be used (active)
NewSession(batch) ==
    [pc |-> "start", run |-> 0, batch |-> batch, storeIdx |-> 1, new_count |-> 0,
     cross_day_dupes |-> 0, counted |-> {}, pending |-> <<>>, flushed |-> <<>>,
     dirty |-> {}, written |-> {}, active |-> TRUE]

\* the transaction of the session is over: nothing of it is left
Closed(s) ==
    [s EXCEPT !.pending = <<>>, !.flushed = <<>>, !.dirty = {}, !.written = {}]

\* the session has written in a transaction that is still open; the database
\* lets one transaction write at a time and the others wait for it
Writing(c) == sessions[c].flushed # <<>> \/ sessions[c].written # {}

MayWrite(c) == \A o \in Callers \ {c} : ~Writing(o)

\* the stored rows with the last_seen_date updates of the session
Touched(c) ==
    [k \in 1..Len(jobs) |->
        IF k \in sessions[c].dirty \cup sessions[c].written
        THEN [jobs[k] EXCEPT !.last_seen_date = Today] ELSE jobs[k]]

\* what a query of the session returns rows from, once the session is flushed
ViewOf(c) == Touched(c) \o sessions[c].flushed \o sessions[c].pending

\* models.py, uq_job_url_date: a pending row has the url_hash and scrape_date
\* of a stored row, so its INSERT raises IntegrityError
Violates(c) ==
    \E k \in 1..Len(sessions[c].pending) : \E m \in 1..Len(jobs) :
        /\ sessions[c].pending[k].url_hash = jobs[m].url_hash
        /\ sessions[c].pending[k].scrape_date = jobs[m].scrape_date

\* the table is empty or has yesterday's row of a listing
InitOverlap ==
    /\ world = World(AllKeys, Plain, Quiet, FALSE, NoPages)
    /\ NoCall
    /\ NoPure
    /\ jobs \in {<<>>, <<Job(BatchOf(<<ItemA>>)[1], url_hash(ItemA.url),
                            Today - 1, Today - 1, Today - 1)>>}
    /\ runs = <<>>
    /\ sview = <<>>
    /\ pc = "idle"
    /\ target_date = 0
    /\ companies = <<>>
    /\ company_urls = <<>>
    /\ all_jobs = <<>>
    /\ failed_sources = 0
    /\ srcIdx = 0
    /\ uk_jobs = <<>>
    /\ unique_jobs = <<>>
    /\ batch_dupes = 0
    /\ new_count = 0
    /\ cross_day_dupes = 0
    /\ storeIdx = 0
    /\ result = NoResult
    /\ faults = 0
    /\ jobs0 = <<>>
    /\ sessions \in [Callers -> {NewSession(b) : b \in Batches2}]

Others ==
    <<world, sview, pc, target_date, companies, company_urls, all_jobs,
      failed_sources, srcIdx, uk_jobs, unique_jobs, batch_dupes, new_count,
      cross_day_dupes, storeIdx, result, faults, jobs0>>

\* engine.py lines 89-95: the run record is added and committed
StartRunBy(c) ==
    /\ sessions[c].pc = "start"
    /\ MayWrite(c)
    /\ runs' = Append(runs, ScrapeRun(Today, "running"))
    /\ sessions' = [sessions EXCEPT ![c].pc = "store", ![c].run = Len(runs) + 1]
    /\ UNCHANGED <<jobs, Others>>
    /\ UNCHANGED call
    /\ UNCHANGED pure

\* engine.py lines 168-209, one pass of the store loop: the first query of the
\* pass flushes the session (autoflush), which raises when a pending row
\* breaks the unique constraint and leaves the transaction unusable
StoreOneBy(c) ==
    LET s == sessions[c]
    IN  /\ s.pc = "store"
        /\ s.storeIdx <= Len(s.batch)
        /\ (s.pending # <<>> \/ s.dirty # {}) => MayWrite(c)
        /\ IF Violates(c)
           THEN sessions' = [sessions EXCEPT
                                ![c] = [Closed(s) EXCEPT !.active = FALSE,
                                                         !.pc = "handler"]]
           ELSE LET job_data == s.batch[s.storeIdx]
                    h        == url_hash(job_data.url)
                    view     == ViewOf(c)
                    flushed  == [s EXCEPT !.flushed = s.flushed \o s.pending,
                                          !.pending = <<>>,
                                          !.written = s.written \cup s.dirty,
                                          !.dirty = {},
                                          !.storeIdx = s.storeIdx + 1]
                IN  IF existing_today(view, h, Today) # {}
                    THEN sessions' = [sessions EXCEPT
                             ![c] = [flushed EXCEPT
                                        !.cross_day_dupes = s.cross_day_dupes + 1]]
                    ELSE IF existing_prev(view, h) = {}
                    THEN sessions' = [sessions EXCEPT
                             ![c] = [flushed EXCEPT
                                        !.pending = <<Job(job_data, h, Today, Today, Today)>>,
                                        !.new_count = s.new_count + 1,
                                        !.counted = s.counted \cup {h}]]
                    ELSE \E p \in existing_prev(view, h) :
                           sessions' = [sessions EXCEPT
                             ![c] = [flushed EXCEPT
                                        !.pending = <<Job(job_data, h, Today,
                                                          view[p].first_seen_date, Today)>>,
                                        !.dirty = {p},
                                        !.new_count = s.new_count + 1,
                                        !.counted = s.counted \cup {h}]]
        /\ UNCHANGED <<jobs, runs, Others>>
        /\ UNCHANGED call
        /\ UNCHANGED pure

\* engine.py line 211: the commit flushes what is pending and ends the
\* transaction; when the flush raises, the commit rolls the transaction back
CommitJobsBy(c) ==
    LET s == sessions[c]
    IN  /\ s.pc = "store"
        /\ s.storeIdx > Len(s.batch)
        /\ (s.pending # <<>> \/ s.dirty # {}) => MayWrite(c)
        /\ IF Violates(c)
           THEN /\ sessions' = [sessions EXCEPT ![c] = [Closed(s) EXCEPT !.pc = "handler"]]
                /\ UNCHANGED jobs
           ELSE /\ jobs' = ViewOf(c)
                /\ sessions' = [sessions EXCEPT ![c] = [Closed(s) EXCEPT !.pc = "commit_run"]]
        /\ UNCHANGED <<runs, Others>>
        /\ UNCHANGED call
        /\ UNCHANGED pure

\* engine.py lines 214-239
CommitRunBy(c) ==
    LET s == sessions[c]
    IN  /\ s.pc = "commit_run"
        /\ MayWrite(c)
        /\ runs' = [runs EXCEPT ![s.run] =
                        [@ EXCEPT !.status = "completed", !.new_jobs = s.new_count,
                                  !.jobs_found = Len(s.batch),
                                  !.duplicates = s.cross_day_dupes,
                                  !.completed_at = TRUE]]
        /\ sessions' = [sessions EXCEPT ![c].pc = "done"]
        /\ UNCHANGED <<jobs, Others>>
        /\ UNCHANGED call
        /\ UNCHANGED pure

\* engine.py lines 241-251: the handler sets the record to 'failed' and commits
\* without a rollback; on a transaction that a failed flush has left unusable
\* the commit raises and run() raises with it
HandlerBy(c) ==
    LET s == sessions[c]
    IN  /\ s.pc = "handler"
        /\ IF s.active
           THEN /\ MayWrite(c)
                /\ runs' = [runs EXCEPT ![s.run] =
                                [@ EXCEPT !.status = "failed", !.completed_at = TRUE,
                                          !.log = ErrorLog]]
                /\ sessions' = [sessions EXCEPT ![c].pc = "done"]
           ELSE /\ sessions' = [sessions EXCEPT ![c].pc = "raised"]
                /\ UNCHANGED runs
        /\ UNCHANGED <<jobs, Others>>
        /\ UNCHANGED call
        /\ UNCHANGED pure

NextOverlap ==
    \/ \E c \in Callers : StartRunBy(c)
    \/ \E c \in Callers : StoreOneBy(c)
    \/ \E c \in Callers : CommitJobsBy(c)
    \/ \E c \in Callers : CommitRunBy(c)
    \/ \E c \in Callers : HandlerBy(c)

SpecOverlap == InitOverlap /\ [][NextOverlap]_vars

\* ------------------------------------------------------------------ claims
Completed == pc = "done" /\ result.status = "completed"

\* the rows the run in progress (or the last run) has committed
NewRows == {k \in 1..Len(jobs) : k > Len(jobs0)}

\* C1: a run that ends 'failed' has stored no Job row and changed no
\* last_seen_date: the jobs table is as it was when the run began.
C1_FailedRunStoresNothing ==
    (pc = "done" /\ runs[cur].status = "failed") => jobs = jobs0

\* C2: once run() has returned or raised, its run record is 'completed' or
\* 'failed', never 'running'.
C2_RunRecordSettled ==
    pc = "done" => runs[cur].status \in {"completed", "failed"}

\* C3: a run record is created 'running'; its stored status only goes from
\* 'running' to 'completed' or 'failed'; a record that is 'completed' or
\* 'failed' is never modified again.
C3_RunRecordTerminal ==
    [][/\ Len(runs') >= Len(runs)
       /\ \A k \in 1..Len(runs) :
            /\ runs[k].status # "running" => runs'[k] = runs[k]
            /\ runs'[k].status # runs[k].status =>
                  runs'[k].status \in {"completed", "failed"}
       /\ \A k \in 1..Len(runs') :
            k > Len(runs) => runs'[k] = ScrapeRun(runs'[k].run_date, "running")]_vars

C3_Witness ==
    /\ pc = "done"
    /\ Len(runs) >= 3
    /\ runs[1].status = "completed"
    /\ runs[2].status = "failed"
    /\ runs[3].status = "completed"

Unique(rows) ==
    \A a, b \in 1..Len(rows) :
        (rows[a].url_hash = rows[b].url_hash /\ rows[a].scrape_date = rows[b].scrape_date)
            => a = b

\* C4: no two stored Job rows have the same (url_hash, scrape_date), and the
\* rows a run is about to insert never collide with a stored row or each other.
C4_UniquePerDay == Unique(jobs) /\ Unique(sview)

C4_Witness ==
    /\ Completed
    /\ \E k \in 1..(cur - 1) :
          runs[k].status = "completed" /\ runs[k].run_date = runs[cur].run_date
    /\ \E a, b \in 1..Len(jobs) :
          jobs[a].url_hash = jobs[b].url_hash /\ jobs[a].scrape_date < jobs[b].scrape_date

\* a completed run for a date for which an earlier run has completed
SecondRunOfDay ==
    /\ Completed
    /\ \E k \in 1..(cur - 1) :
          runs[k].status = "completed" /\ runs[k].run_date = runs[cur].run_date

\* C5 as claimed: the second run for a date reports new_jobs = 0 and
\* duplicates = jobs_found, and inserts no row.
C5_Original ==
    SecondRunOfDay =>
        /\ result.new_jobs = 0
        /\ result.duplicates = result.jobs_found
        /\ jobs = jobs0

\* C5 amended: the second run for a date reports new_jobs = 0 and duplicates =
\* jobs_found minus the records the UK filter rejected, and changes no row.
C5_SecondRunAllDuplicates ==
    SecondRunOfDay =>
        /\ result.new_jobs = 0
        /\ result.duplicates =
              result.jobs_found
                - (runs[cur].log.total_scraped - runs[cur].log.uk_filtered)
        /\ jobs = jobs0

C5_Witness ==
    /\ SecondRunOfDay
    /\ runs[cur].log.total_scraped > runs[cur].log.uk_filtered
    /\ runs[cur].log.uk_filtered > runs[cur].log.batch_deduped
    /\ result.duplicates >= 2

\* a completed run for the day after a date for which a run has completed
NextDayRun ==
    /\ Completed
    /\ \E k \in 1..(cur - 1) :
          runs[k].status = "completed" /\ runs[k].run_date + 1 = runs[cur].run_date

DailyRuns ==
    \A k \in 1..Len(runs) : runs[k].status = "completed" /\ runs[k].run_date = k

\* C7: after a completed run of day D' that inserts the row of a re-sighted
\* listing, every stored row of that url_hash from an earlier day has
\* last_seen_date = D'.
C7_AllEarlierRowsSeenToday ==
    (Completed /\ DailyRuns) =>
        \A n \in NewRows : \A r \in 1..Len(jobs) :
            (jobs[r].url_hash = jobs[n].url_hash
                /\ jobs[r].scrape_date < jobs[n].scrape_date)
              => jobs[r].last_seen_date = jobs[n].scrape_date

ValidRecord(r) ==
    /\ Truthy(strip(r.title))
    /\ Truthy(strip(r.company))
    /\ Truthy(strip(r.location))
    /\ UrlTruthy(urlstrip(r.url))

\* C8: no record with an empty title, company, location or url is in the batch
\* given to the UK filter or to the deduplicator, or in a stored Job row.
C8_NoInvalidRecord ==
    /\ \A k \in 1..Len(all_jobs) : ValidRecord(all_jobs[k])
    /\ \A k \in 1..Len(uk_jobs) : ValidRecord(uk_jobs[k])
    /\ \A k \in 1..Len(jobs) : ValidRecord(jobs[k])

\* the adapter invocations of a run in this world: the available sources, and
\* the career pages when an active company has a career URL
Invoked(w) == {s \in SourceNames : is_available(s, w.config)}

CareerInvoked(w) ==
    \E k \in 1..Len(w.companies) :
        w.companies[k].active /\ w.companies[k].career_url # ""

RECURSIVE SumLen(_, _)
SumLen(w, set) ==
    IF set = {} THEN 0
    ELSE LET s == CHOOSE x \in set : TRUE
         IN  Len(SourceScrape(s, w.resp[s].items)) + SumLen(w, set \ {s})

RaisingInvocations(w) ==
    Cardinality({s \in Invoked(w) : w.resp[s].raise})
      + (IF CareerInvoked(w) /\ w.career_raise THEN 1 ELSE 0)

RecordsOfTheOthers(w) ==
    SumLen(w, {s \in Invoked(w) : ~w.resp[s].raise})
      + (IF CareerInvoked(w) /\ ~w.career_raise
         THEN Len(scrape_career_pages(
                  SelectSeq(w.companies, LAMBDA c : c.active /\ c.career_url # ""),
                  w.pages))
         ELSE 0)

\* C9: adapters that raise do not stop the run: a completed run reports in
\* failed_sources exactly the invocations that raised, and has kept every
\* record of the adapters that did not.
C9_FailedSourcesCounted ==
    Completed =>
        /\ result.failed_sources = RaisingInvocations(world)
        /\ runs[cur].failed_sources = RaisingInvocations(world)
        /\ result.jobs_found = RecordsOfTheOthers(world)

C9_Witness ==
    /\ Completed
    /\ result.failed_sources >= 2
    /\ result.new_jobs >= 1

\* ------------------------------------------------------------------ C10
\* the request met a timeout, a status other than 200 or an unreadable body
Unanswered(resp) ==
    LET final == IF resp.status = "202" THEN resp.retry ELSE resp.status
    IN  final # "200" \/ resp.body # "fine"

\* the request failed: unanswered, or answered with a malformed listing
Fails(resp) == Unanswered(resp) \/ Malformed(resp.entries)

\* C10 as stated: scrape() never raises, a request that fails (timeout, status,
\* malformed payload) adds no record to the list, and scrape() returns only when
\* every query was attempted.
C10_Original ==
    [][/\ apc' # "raised"
       /\ (requests' > requests /\ Fails(upstream')) => scraped' = scraped
       /\ apc' = "returned" => attempted' = queries]_vars

\* C10 amended: scrape() never raises and keeps the records accumulated so far;
\* a request that is not answered with a readable body adds no record, a request
\* adds only records of well-formed listings of its payload, and scrape() returns
\* only when every query was attempted or the web search has failed
\* FAILURE_LIMIT times in a row.
C10_AdapterContainsFailure ==
    [][/\ apc' # "raised"
       /\ Len(scraped') >= Len(scraped)
       /\ SubSeq(scraped', 1, Len(scraped)) = scraped
       /\ (requests' > requests /\ Unanswered(upstream')) => scraped' = scraped
       /\ \A k \in (Len(scraped) + 1)..Len(scraped') :
            \E e \in 1..Len(upstream'.entries) :
                /\ ~upstream'.entries[e].bad
                /\ scraped'[k].url = urlstrip(upstream'.entries[e].item.url)
       /\ apc' = "returned" =>
            \/ attempted' = queries
            \/ /\ adapter' = "google_search"
               /\ consecutive_failures' >= FAILURE_LIMIT]_vars

\* scrape() has returned its records after a query that failed, every query
\* attempted
C10_Witness ==
    /\ apc = "returned"
    /\ Fails(upstream)
    /\ scraped # <<>>
    /\ attempted = queries
    /\ queries > 1

\* ------------------------------------------------------------------ C11
\* C11: deduplicate_jobs applied to its own unique output returns the same list
\* in the same order, with a duplicate count of 0.
C11_DedupIdempotent ==
    (fn = "deduplicate_jobs" /\ again.called) =>
        /\ again.value.unique = ret.value.unique
        /\ again.value.dupes = 0

\* the second call was given a list that the first call had shortened
C11_Witness ==
    /\ fn = "deduplicate_jobs"
    /\ again.called
    /\ ret.value.dupes > 0
    /\ Len(ret.value.unique) > 1

\* ------------------------------------------------------------------ C12
\* C12: no two records of the output of deduplicate_jobs are similar (same URL
\* identity, or same normalized title and company), and every record left out
\* is similar to a record of the input before it.
C12_NoSimilarPairKept ==
    (fn = "deduplicate_jobs" /\ ret.called) =>
        LET unique == ret.value.unique
        IN  /\ \A i, j \in 1..Len(unique) :
                 i < j => /\ url_hash(unique[i].url) # url_hash(unique[j].url)
                          /\ ~is_similar_job(unique[i], unique[j])
            /\ \A k \in 1..Len(arg) :
                 (\A i \in 1..Len(unique) : unique[i] # arg[k]) =>
                     \E m \in 1..(k - 1) : is_similar_job(arg[m], arg[k])

\* a record was left out for its title and company alone, another for its URL
C12_Witness ==
    /\ fn = "deduplicate_jobs"
    /\ ret.called
    /\ Len(arg) = 3
    /\ Len(ret.value.unique) = 1
    /\ url_hash(arg[2].url) # url_hash(arg[1].url)
    /\ url_hash(arg[3].url) = url_hash(arg[1].url)
    /\ arg[3] # arg[1]

\* ------------------------------------------------------------------ C13
\* short is long with some of its elements left out
RECURSIVE IsSubsequence(_, _)
IsSubsequence(short, long) ==
    IF short = <<>> THEN TRUE
    ELSE IF long = <<>> THEN FALSE
    ELSE IF Head(short) = Head(long) THEN IsSubsequence(Tail(short), Tail(long))
    ELSE IsSubsequence(short, Tail(long))

\* C13: the unique output of deduplicate_jobs is a subsequence of the input
\* with the records as they were, the first input record is kept first, and
\* len(unique) + duplicate_count = len(input).
C13_FirstSeenWins ==
    (fn = "deduplicate_jobs" /\ ret.called) =>
        /\ IsSubsequence(ret.value.unique, arg)
        /\ arg # <<>> => (ret.value.unique # <<>> /\ ret.value.unique[1] = arg[1])
        /\ Len(ret.value.unique) + ret.value.dupes = Len(arg)

\* of three records the middle one was left out
C13_Witness ==
    /\ fn = "deduplicate_jobs"
    /\ ret.called
    /\ Len(arg) = 3
    /\ ret.value.unique = <<arg[1], arg[3]>>
    /\ ret.value.dupes = 1

\* ------------------------------------------------------------------ C14
\* the parameters C14 names: utm_* (utm_id among them), ref, fbclid, gclid,
\* mc_cid, mc_eid
NamedTracking ==
    {"utm_source", "utm_medium", "utm_campaign", "utm_content", "utm_term", "utm_id",
     "ref", "fbclid", "gclid", "mc_cid", "mc_eid"}

\* u and v differ at most in named tracking parameters and a trailing slash
DifferOnlyInTracking(u, v) ==
    /\ u.base = v.base
    /\ u.caps = v.caps
    /\ u.pad = v.pad
    /\ SelectSeq(u.query, LAMBDA p : p.k \notin NamedTracking)
         = SelectSeq(v.query, LAMBDA p : p.k \notin NamedTracking)

\* C14: two URLs that differ only in tracking query parameters (utm_*, ref,
\* fbclid, gclid, mc_cid, mc_eid) or in a trailing slash of the path have the
\* same canonical form and the same identity hash.
C14_TrackingInsensitive ==
    (fn = "url_hash" /\ ret.called /\ DifferOnlyInTracking(arg[1], arg[2])) =>
        /\ ret.value.canonical[1] = ret.value.canonical[2]
        /\ ret.value.hash[1] = ret.value.hash[2]

\* ---- C15 ----
\* The rule table of the claim, in its own words: a marker is an
\* other-country-only phrase found in the text, a place name is a UK town,
\* county, nation or region found in the text, a code or a term is a whole
\* word (or whole words) of the text.
PlaceNames == {p \in uk_places : p[1] \notin {"remote", "hybrid"}}

HasMarker(ws) == \E ind \in non_uk_indicators : ContainsEntry(ws, ind)

HasPlaceName(ws) == \E p \in PlaceNames : ContainsEntry(ws, p)

HasCode(ws) == \E i \in 1..Len(ws) : ws[i] \in {"uk", "gb"}

HasTerm(ws) == \E t \in global_exact : HasPhrase(ws, t)

RuleTable(ws) ==
    IF HasMarker(ws) THEN FALSE
    ELSE IF HasPlaceName(ws) THEN TRUE
    ELSE IF HasCode(ws) THEN TRUE
    ELSE IF HasTerm(ws) THEN TRUE
    ELSE FALSE

Answered == fn = "is_uk_based" /\ ret.called

Example(ws, expected) ==
    (Answered /\ arg.location.words = ws) => ret.value = expected

\* C15: is_uk_based answers as the ordered rule table does (exclusion marker,
\* then UK place name, then 'uk'/'gb' as a whole word, then a remote/global
\* term as a whole word, else false): a marker wins over a place, a code and a
\* term in the same text, 'uk' inside a longer word alone does not match, and
\* the five examples of the specification get their stated answers.
C15_OrderedRuleTable ==
    /\ Answered => ret.value = RuleTable(arg.location.words)
    /\ (Answered /\ HasMarker(arg.location.words)) => ret.value = FALSE
    /\ Example(<<"ukraine">>, FALSE)
    /\ Example(<<"usa", "only">>, FALSE)
    /\ Example(<<"london", ",", "uk">>, TRUE)
    /\ Example(<<"remote">>, TRUE)
    /\ Example(<<"frankfurt", ",", "germany">>, FALSE)
    /\ Example(<<"kaufbeuren">>, FALSE)

\* a text with a UK place and an exclusion marker has been answered
C15_Witness ==
    /\ Answered
    /\ arg.location.words = <<"london", "usa", "only">>
    /\ ret.value = FALSE

\* ---- C16 ----
\* a date string that is not a YYYY-MM-DD date (a date written without
\* leading zeros is let through here, as strptime lets it through)
InvalidDate(s) == s.kind \in {"empty", "no_such_day", "garbage"}

InvalidRequest ==
    /\ fn = "export"
    /\ IF arg.op = "daily_json"
       THEN InvalidDate(arg.date_str)
       ELSE InvalidDate(arg.params.date_from) \/ InvalidDate(arg.params.date_to)

ValidationError(response) ==
    /\ response.status = 400
    /\ response.error \in {"Invalid date format. Use YYYY-MM-DD",
                           "Both date_from and date_to required (YYYY-MM-DD)."}
    /\ ~response.queried

\* C16: a date-scoped export called with a date string that is not a valid
\* YYYY-MM-DD date answers 400 with a fixed message, runs no storage query,
\* and answers the same again for the same input.
C16_InvalidDateRejected ==
    InvalidRequest =>
        /\ ret.called => ValidationError(ret.value)
        /\ again.called => again.value = ret.value

\* the same statement for the daily JSON export and the JSON range export
C16_JsonExportsReject ==
    (InvalidRequest /\ arg.op \in {"daily_json", "export_json_range"}) =>
        /\ ret.called => ValidationError(ret.value)
        /\ again.called => again.value = ret.value

\* ---- C17 ----
\* C17: the Job rows and last-seen updates of a run become durable together
\* with the run record's transition to 'completed': whenever the committed
\* jobs table differs from what it was when the run began, the committed run
\* record is 'completed'.
C17_RowsDurableWithCompletion ==
    (Len(runs) > 0 /\ jobs # jobs0) => runs[cur].status = "completed"

\* ---- C18 ----
\* the pass of the store loop over a record whose url_hash has a row with
\* scrape_date = target_date
SameDayPass ==
    /\ pc = "store"
    /\ storeIdx <= Len(unique_jobs)
    /\ storeIdx' = storeIdx + 1
    /\ \E k \in 1..Len(sview) :
          /\ sview[k].url_hash = url_hash(unique_jobs[storeIdx].url)
          /\ sview[k].scrape_date = target_date

\* C18: for a record surviving batch dedup whose url_hash already has a row
\* for the target date, the run inserts no row, changes no field of any row,
\* and increases the cross-day duplicate count by exactly one.
C18_SameDaySkipped ==
    [][SameDayPass =>
          /\ sview' = sview
          /\ jobs' = jobs
          /\ new_count' = new_count
          /\ cross_day_dupes' = cross_day_dupes + 1]_vars

\* a record has been skipped as stored for the date, after another was stored
C18_Witness ==
    /\ pc = "store"
    /\ cross_day_dupes > 0
    /\ storeIdx > 1
    /\ \E k \in 1..Len(sview) :
          /\ sview[k].url_hash = url_hash(unique_jobs[storeIdx - 1].url)
          /\ sview[k].scrape_date = target_date
          /\ k <= Len(jobs0)

\* ---- C19 ----
\* the pass of the store loop that inserts a row
InsertPass ==
    /\ pc = "store"
    /\ storeIdx <= Len(unique_jobs)
    /\ storeIdx' = storeIdx + 1
    /\ Len(sview') = Len(sview) + 1

RowsOf(view, h) == {k \in 1..Len(view) : view[k].url_hash = h}

EarlierRowsOf(view, h, d) == {k \in RowsOf(view, h) : view[k].scrape_date < d}

\* C19: a row inserted by a run on date T has scrape_date = last_seen_date =
\* T; if a row of its url_hash exists for an earlier date, it takes the
\* first_seen_date of an earlier row and that row's last_seen_date becomes T;
\* if no row of its url_hash exists, its first_seen_date is T.
C19_InsertedRowDates ==
    [][InsertPass =>
          LET h       == url_hash(unique_jobs[storeIdx].url)
              new_job == sview'[Len(sview')]
          IN  /\ new_job.url_hash = h
              /\ new_job.scrape_date = target_date
              /\ new_job.last_seen_date = target_date
              /\ EarlierRowsOf(sview, h, target_date) # {} =>
                    \E k \in EarlierRowsOf(sview, h, target_date) :
                        /\ new_job.first_seen_date = sview[k].first_seen_date
                        /\ sview'[k].last_seen_date = target_date
              /\ RowsOf(sview, h) = {} => new_job.first_seen_date = target_date]_vars

\* every run so far was started on a date not before the dates of the runs
\* before it
NonDecreasingDates ==
    \A k \in 1..Len(runs) : \A m \in 1..k : runs[m].run_date <= runs[k].run_date

\* the same for runs on non-decreasing dates
C19_InsertedRowDatesInOrder ==
    [][(NonDecreasingDates /\ InsertPass) =>
          LET h       == url_hash(unique_jobs[storeIdx].url)
              new_job == sview'[Len(sview')]
          IN  /\ new_job.url_hash = h
              /\ new_job.scrape_date = target_date
              /\ new_job.last_seen_date = target_date
              /\ EarlierRowsOf(sview, h, target_date) # {} =>
                    \E k \in EarlierRowsOf(sview, h, target_date) :
                        /\ new_job.first_seen_date = sview[k].first_seen_date
                        /\ sview'[k].last_seen_date = target_date
              /\ RowsOf(sview, h) = {} => new_job.first_seen_date = target_date]_vars

\* for runs on non-decreasing dates, all rows of one identity share one
\* first_seen_date, the earliest scrape_date of the identity
C19_SharedFirstSeen ==
    NonDecreasingDates =>
        \A k \in 1..Len(sview) :
            /\ \A m \in RowsOf(sview, sview[k].url_hash) :
                  sview[m].scrape_date >= sview[k].first_seen_date
            /\ \E m \in RowsOf(sview, sview[k].url_hash) :
                  sview[m].scrape_date = sview[k].first_seen_date

\* ---- C20 ----
\* the availability the claim states: Adzuna with both its app id and its API
\* key, Reed with its API key, every other adapter always
Configured(src) ==
    IF src = "adzuna" THEN world.config.ADZUNA_APP_ID /\ world.config.ADZUNA_API_KEY
    ELSE IF src = "reed" THEN world.config.REED_API_KEY
    ELSE TRUE

HasCareerCompany ==
    \E k \in 1..Len(world.companies) :
        world.companies[k].active /\ world.companies[k].career_url # ""

\* the failures the run can have counted: those of configured adapters, and
\* that of the career-page adapter when a company has a career URL
CountableFailures ==
    Cardinality({src \in SourceNames : Configured(src) /\ world.resp[src].raise})
    + (IF HasCareerCompany /\ world.career_raise THEN 1 ELSE 0)

\* C20: the run calls scrape only on adapters that are available (Adzuna iff
\* app id and API key are set, Reed iff its API key is set, the keyless ones
\* always) and the career-page adapter only when an active company has a
\* career URL: an adapter that is skipped contributes no record and no failure.
C20_OnlyAvailableAdaptersScraped ==
    /\ \A k \in 1..Len(all_jobs) :
          IF all_jobs[k].source = "career_page"
          THEN HasCareerCompany
          ELSE Configured(all_jobs[k].source)
    /\ failed_sources <= CountableFailures

\* a run has gone through the adapters with Adzuna's key and Reed's key
\* missing, upstreams that would have answered for both, and only an inactive
\* company with a career URL, and has collected records
C20_Witness ==
    /\ pc = "filter"
    /\ ~Configured("adzuna") /\ ~Configured("reed") /\ ~HasCareerCompany
    /\ world.config.ADZUNA_APP_ID
    /\ ~world.resp["adzuna"].raise /\ Len(world.resp["adzuna"].items) > 0
    /\ world.resp["reed"].raise
    /\ \E k \in 1..Len(world.companies) : world.companies[k].career_url # ""
    /\ Len(all_jobs) > 0
    /\ failed_sources = 0

\* ---- C21 ----
\* the order the claim states, career pages last
ClaimedOrder ==
    <<"devitjobs", "themuse", "google_search", "jobicy", "workingnomads",
      "remotive", "adzuna", "reed", "career_page">>

Rank(src) == CHOOSE k \in 1..Len(ClaimedOrder) : ClaimedOrder[k] = src

\* what one adapter returned in this world
Returns(src) ==
    IF src = "career_page"
    THEN IF HasCareerCompany /\ ~world.career_raise
         THEN scrape_career_pages(
                  SelectSeq(world.companies, LAMBDA c : c.active /\ c.career_url # ""),
                  world.pages)
         ELSE <<>>
    ELSE IF Configured(src) /\ ~world.resp[src].raise
         THEN SourceScrape(src, world.resp[src].items)
         ELSE <<>>

Kept(r) == \E i \in 1..Len(unique_jobs) : unique_jobs[i] = r

Deduplicated == fn = "deduplicate_jobs" /\ ret.called

\* the record at position k has the URL hash or the signature of a record
\* before it in the input
MatchesEarlier(k) == \E m \in 1..(k - 1) : is_similar_job(arg[m], arg[k])

\* the record at position k has neither key of a kept record before it
RECURSIVE KeptAt(_)
KeptAt(k) == \A m \in 1..(k - 1) : KeptAt(m) => ~is_similar_job(arg[m], arg[k])

\* C22: every record with the URL hash or the signature of any earlier record
\* of the input is discarded, kept or not that earlier record.
C22_MatchesAnyEarlier ==
    Deduplicated =>
        ret.value.dupes = Cardinality({k \in 1..Len(arg) : MatchesEarlier(k)})

\* what the loop does: it discards exactly the records with the URL hash or
\* the signature of an earlier record that was kept; the keys of a discarded
\* record are not remembered
C22_MatchesKeptOnly ==
    Deduplicated =>
        /\ ret.value.dupes = Cardinality({k \in 1..Len(arg) : ~KeptAt(k)})
        /\ Len(ret.value.unique) = Cardinality({k \in 1..Len(arg) : KeptAt(k)})
        /\ \A k \in 1..Len(arg) :
              KeptAt(k) => \E i \in 1..Len(ret.value.unique) : ret.value.unique[i] = arg[k]

\* A(h1,s1), B(h1,s2), C(h3,s2): B is left out for its hash and C is kept
C22_Witness ==
    /\ Deduplicated
    /\ Len(arg) = 3
    /\ url_hash(arg[2].url) = url_hash(arg[1].url)
    /\ Signature(arg[2]) # Signature(arg[1])
    /\ url_hash(arg[3].url) # url_hash(arg[1].url)
    /\ Signature(arg[3]) = Signature(arg[2])
    /\ ret.value.unique = <<arg[1], arg[3]>>

\* ---- C23 ----
\* C23: a multi-query adapter (google_search, adzuna, reed) issues no further
\* request once 5 attempts in a row have failed: it never has more than 5
\* failed attempts in a row behind it.
C23_StopsAfterConsecutiveFailures ==
    adapter \in {"google_search", "adzuna", "reed"} => failed_in_a_row <= FAILURE_LIMIT

\* the same for the web-search adapter alone
C23_WebSearchStops ==
    adapter = "google_search" => failed_in_a_row <= FAILURE_LIMIT

\* ---- C24 ----
\* the query was not answered with a 200, at its first request or, after a
\* 202, at its second
QueryFails(resp) ==
    (IF resp.status = "202" THEN resp.retry ELSE resp.status) # "200"

WebSearch == adapter = "google_search"

\* a step of the web search that issues a query
IssuesQuery == WebSearch /\ attempted' = attempted + 1

\* a step of the web search that ends the pass of a query
EndsQuery == WebSearch /\ queryIdx' = queryIdx + 1

\* C24: in the web search a query answered with 202 is sent exactly once more,
\* a query that is not answered with a 200 in the end adds one to the
\* consecutive failures and a query that is answered resets them to zero, no
\* query is issued once 5 in a row have failed, one call issues at most 70
\* queries with at most 2 requests each, and the call returns.
C24_WebSearchBounded ==
    /\ [][/\ IssuesQuery =>
                /\ requests' - requests = (IF upstream'.status = "202" THEN 2 ELSE 1)
                /\ consecutive_failures < FAILURE_LIMIT
                /\ attempted' <= MAX_QUERIES
          /\ EndsQuery =>
                consecutive_failures' = (IF QueryFails(upstream')
                                         THEN consecutive_failures + 1 ELSE 0)]_vars
    /\ [](WebSearch => (attempted <= MAX_QUERIES /\ requests <= 2 * attempted))
    /\ <>(WebSearch => apc = "returned")

\* a call has gone through 70 queries, some of them sent twice, and returned
\* after a query that failed
C24_Witness ==
    /\ WebSearch
    /\ apc = "returned"
    /\ attempted = MAX_QUERIES
    /\ requests > attempted
    /\ consecutive_failures > 0

\* C25: a paginated adapter (Adzuna, The Muse) asks for the pages of a query
\* in increasing order from the first one, goes on to the next page only when
\* the page it read was not empty, reported more results, raised no error and
\* was not page MAX_PAGES_PER_SOURCE, and otherwise ends the query; it never
\* asks for more than MAX_PAGES_PER_SOURCE pages of one query.
Paginated == adapter \in {"adzuna", "themuse"}

RequestsPage == Paginated /\ requests' = requests + 1

RequestError(resp) ==
    resp.status # "200" \/ resp.body # "fine" \/ Malformed(resp.entries)

EmptyPage(resp) == ~RequestError(resp) /\ resp.entries = <<>>

TotalReached(resp) == ~RequestError(resp) /\ ~resp.more

EndsPages == apc' = "except" \/ (queryIdx' = queryIdx + 1 /\ page' = 1)

NextPage == queryIdx' = queryIdx /\ page' = page + 1 /\ apc' = "request"

C25_PagesInOrderUntilStop ==
    /\ [][RequestsPage =>
            /\ page \in 1..MAX_PAGES_PER_SOURCE
            /\ IF \/ EmptyPage(upstream') \/ TotalReached(upstream')
                  \/ RequestError(upstream') \/ page = MAX_PAGES_PER_SOURCE
               THEN EndsPages /\ ~NextPage
               ELSE NextPage]_vars
    /\ [][(Paginated /\ apc = "except") =>
            (requests' = requests /\ queryIdx' = queryIdx + 1 /\ page' = 1)]_vars
    /\ [](Paginated => page \in 1..MAX_PAGES_PER_SOURCE)

\* a query of The Muse ended at the page cap although more results were reported
C25_Witness ==
    /\ adapter = "themuse"
    /\ requests >= MAX_PAGES_PER_SOURCE
    /\ queryIdx > 1
    /\ page = 1
    /\ ~RequestError(upstream)
    /\ upstream.entries # <<>>
    /\ upstream.more

\* C26: the career-page adapter returns at most MAX_JOBS_PER_COMPANY records
\* of one company on every extraction path, returns no record of a company
\* whose page fails, and returns of every other company what it returns when
\* that company is scraped alone.
CareerPagesScraped == fn = "scrape_career_pages" /\ ret.called

RecordsFor(entry, records) == SelectSeq(records, LAMBDA j : j.company = entry.name)

Alone(entry) == scrape_career_pages(<<entry>>, arg.pages)

C26_CareerPagesCappedAndIsolated ==
    CareerPagesScraped =>
        \A k \in 1..Len(arg.company_urls) :
            LET entry == arg.company_urls[k]
                board == arg.pages[entry.career_url]
                mine  == RecordsFor(entry, ret.value)
            IN  /\ Len(mine) <= MAX_JOBS_PER_COMPANY
                /\ board.raise => mine = <<>>
                /\ mine = Alone(entry)
                /\ (~board.raise /\ board.path = "api") =>
                       Len(mine) = (IF Len(board.items) < MAX_JOBS_PER_COMPANY
                                    THEN Len(board.items) ELSE MAX_JOBS_PER_COMPANY)

\* the first page fails, the second is a long page of job links, the third a
\* long page of cards: both are cut at the cap
C26_Witness ==
    /\ CareerPagesScraped
    /\ arg.pages["u1"].raise
    /\ LET second == arg.pages["u2"]
           third  == arg.pages["u3"]
       IN  /\ ~second.raise /\ second.path = "html"
           /\ Len(second.items) > MAX_JOBS_PER_COMPANY
           /\ ~third.raise /\ third.path = "html"
           /\ third.items = <<>> /\ Len(third.cards) > MAX_JOBS_PER_COMPANY
    /\ Len(ret.value) = 2 * MAX_JOBS_PER_COMPANY

\* C27: from the creation of the run record until the store phase begins, the
\* jobs table, committed and as the session of the run sees it, is what it
\* was when the run started, and no step of loading, scraping, filtering and
\* deduplicating changes a job row or the target companies.
BeforeStore == pc \in {"load", "scrape", "career", "filter"}

StoreBegins == pc = "store" /\ storeIdx = 1

C27_NoWriteBeforeStore ==
    /\ []((BeforeStore \/ StoreBegins) => (jobs = jobs0 /\ sview = jobs0))
    /\ [][BeforeStore => /\ jobs' = jobs
                         /\ sview' = sview
                         /\ world'.companies = world.companies]_vars

\* a later run is about to store a batch and the table has rows of an earlier run
C27_Witness ==
    /\ StoreBegins
    /\ Len(runs) > 1
    /\ jobs # <<>>
    /\ unique_jobs # <<>>
    /\ all_jobs # unique_jobs

\* C28: when a run completes, jobs_found is the records the UK filter rejected
\* plus duplicates plus new_jobs, duplicates is the batch duplicates plus the
\* cross-day duplicates, new_jobs is the number of rows the run inserted with
\* scrape_date = target date, and the returned result has the counts of the
\* run record.
Completes == pc = "commit_run" /\ pc' = "done"

UkRejected == Len(all_jobs) - Len(SelectSeq(all_jobs, is_uk_based))

InsertedFor(d) == Cardinality({k \in NewRows : jobs[k].scrape_date = d})

C28_CountsBalance ==
    /\ [][Completes =>
            LET run == runs'[cur]
            IN  /\ run.status = "completed"
                /\ run.jobs_found = UkRejected + run.duplicates + run.new_jobs
                /\ run.duplicates = batch_dupes + cross_day_dupes
                /\ batch_dupes = Len(uk_jobs) - Len(unique_jobs)
                /\ run.new_jobs = InsertedFor(target_date)
                /\ run.new_jobs = Cardinality(NewRows)
                /\ result'.jobs_found = run.jobs_found
                /\ result'.new_jobs = run.new_jobs
                /\ result'.duplicates = run.duplicates
                /\ result'.failed_sources = run.failed_sources]_vars
    /\ [](Completed =>
            /\ runs[cur].new_jobs = InsertedFor(runs[cur].run_date)
            /\ runs[cur].jobs_found >= runs[cur].duplicates + runs[cur].new_jobs
            /\ result.new_jobs = runs[cur].new_jobs
            /\ result.duplicates = runs[cur].duplicates
            /\ result.jobs_found = runs[cur].jobs_found)

\* a completed run with a duplicate of each kind and a new row
C28_Witness ==
    /\ Completed
    /\ runs[cur].log.uk_filtered > runs[cur].log.batch_deduped
    /\ runs[cur].log.cross_day_dupes > 0
    /\ runs[cur].new_jobs > 0
    /\ runs[cur].jobs_found = runs[cur].duplicates + runs[cur].new_jobs

\* C29: after any sequence of completed runs, on target dates in any order,
\* every stored row has first_seen_date <= scrape_date <= last_seen_date.
AllCompleted ==
    /\ pc \in {"idle", "done"}
    /\ \A k \in 1..Len(runs) : runs[k].status = "completed"

DatesOrdered(row) ==
    row.first_seen_date <= row.scrape_date /\ row.scrape_date <= row.last_seen_date

C29_RowDatesOrdered ==
    AllCompleted => \A k \in 1..Len(jobs) : DatesOrdered(jobs[k])

\* the same after completed runs on non-decreasing dates
C29_RowDatesOrderedInOrder ==
    (AllCompleted /\ NonDecreasingDates) =>
        \A k \in 1..Len(jobs) : DatesOrdered(jobs[k])

\* C30: when the scheduled run and a manually triggered run for the same date
\* overlap, the jobs table never holds two rows with the same url_hash and
\* scrape_date, no listing is counted in new_jobs by two completed runs, and
\* once both calls of run() are over both run records are 'completed' or
\* 'failed'.
NoTwoRows ==
    \A k \in 1..Len(jobs) : \A m \in 1..Len(jobs) :
        (jobs[k].url_hash = jobs[m].url_hash /\ jobs[k].scrape_date = jobs[m].scrape_date)
            => k = m

CompletedBy(c) ==
    sessions[c].run > 0 /\ runs[sessions[c].run].status = "completed"

CountedOnce ==
    \A c \in DOMAIN sessions : \A o \in DOMAIN sessions \ {c} :
        (CompletedBy(c) /\ CompletedBy(o)) =>
            sessions[c].counted \cap sessions[o].counted = {}

BothOver ==
    sessions # <<>> /\ \A c \in DOMAIN sessions : sessions[c].pc \in {"done", "raised"}

C30_OverlappingRuns ==
    /\ NoTwoRows
    /\ CountedOnce
    /\ BothOver => \A k \in 1..Len(runs) : runs[k].status \in {"completed", "failed"}

\* the rows and the counts alone
C30_NoRowTwiceNoListingTwice == NoTwoRows /\ CountedOnce

\* both runs had the listing pending, one stored it and completed, the other failed
C30_LoserFails ==
    /\ BothOver
    /\ \E c \in DOMAIN sessions : \E o \in DOMAIN sessions :
          /\ CompletedBy(c) /\ sessions[c].new_count > 0
          /\ sessions[o].run > 0 /\ runs[sessions[o].run].status = "failed"
          /\ sessions[c].counted \cap sessions[o].counted # {}
====
